---- MODULE Spec2Model ----
(***************************************************************************)
(* The fan-out reader of cshum/imagor: one producer goroutine copies a     *)
(* source stream into a shared buffer and broadcasts every chunk to the    *)
(* channels of the consumers registered so far; a consumer first replays   *)
(* the bytes buffered before it registered and then reads its channel.     *)
(*                                                                         *)
(* Spec models package fanout (src/fanout/fanout.go): Fanout / Reader.     *)
(*                                                                         *)
(* Every goroutine is a process with a program counter.  A step is one     *)
(* critical section of the sync.RWMutex, one channel operation, or the     *)
(* goroutine-local code between two of those.  The exclusive side of the   *)
(* lock is only ever held inside one step; the shared side is held by the  *)
(* producer across its whole broadcast loop, so it is state: f.lock.       *)
(***************************************************************************)
EXTENDS Integers, Sequences, FiniteSets, TLC

\* ------------------------------------------------------------------ bounds
NumConsumers == 2      \* consumers NewReader may create
MaxLen == 2            \* longest source stream, largest declared size
MaxP == 2              \* longest caller buffer p handed to Read

NumSeekers == 1        \* consumers the closure variants of the fan-out mint
MaxLenSeek == 3        \* longest source stream, largest size, for those variants

\* channel capacity is size/4096+1
ChanUnit == 4096

\* the chunk the append-based producer reads into, and its channel capacity unit
ChunkLen == 512

Consumers == 1..NumConsumers

\* ----------------------------------------------------------------- helpers
Min(a, b) == IF a < b THEN a ELSE b

\* s[:k] and s[k:] of a Go slice
Take(s, k) == SubSeq(s, 1, Min(k, Len(s)))
Drop(s, k) == SubSeq(s, k + 1, Len(s))

IsPrefix(s, t) == Len(s) <= Len(t) /\ SubSeq(t, 1, Len(s)) = s

RECURSIVE Flatten(_)
Flatten(ch) == IF ch = <<>> THEN <<>> ELSE Head(ch) \o Flatten(Tail(ch))

Zeros(k) == [i \in 1..k |-> 0]

\* The source stream of length k.  Byte i has value i, so that a byte that is
\* dropped, repeated or reordered on the way to a consumer shows in what the
\* consumer reads.
RECURSIVE Stream(_)
Stream(k) == IF k <= 0 THEN <<>> ELSE Stream(k - 1) \o <<k>>

VARIABLES
    source,      \* the bytes the source stream holds
    declared,    \* the size handed to New
    srcPos,      \* bytes the source has handed out so far
    srcClosed,   \* number of source.Close() calls
    f,           \* the Fanout struct (size, err, readers, buf, current, once, lock)
    prod,        \* the readAll goroutine: pc and locals (n, e, bn, readersCopy, i)
    r,           \* the Reader structs, by consumer
    call,        \* the Read call in progress on each consumer: pc and locals
    out,         \* the bytes Read has returned to each consumer's caller, in order,
                 \* since the consumer was created or last repositioned by Seek
    ret,         \* what the last finished call on each consumer returned
    closer,      \* the explicit Close calls on each consumer
    panic,       \* the runtime panic that ended the process, or "none"
    starts,      \* how many times the readAll goroutine was launched
    readCalled,  \* whether Read was ever called on any consumer
    blob,        \* the Blob struct, its opener and the readers it handed out
    ctx,         \* the request scopes of WithContext: deferred functions, cache
    app          \* the server: its configuration and the requests it serves

vars == <<source, declared, srcPos, srcClosed, f, prod, r, call, out, ret,
          closer, panic, starts, readCalled, blob, ctx, app>>

\* ------------------------------------------------------------ bytes.Reader
NilReader == [live |-> FALSE, s |-> <<>>, i |-> 0]

bytesNewReader(s) == [live |-> TRUE, s |-> s, i |-> 0]

\* bytes.Reader.Read(p) with len(p) = plen: the bytes copied, the new reader
bytesReaderAtEOF(br) == br.i >= Len(br.s)
bytesReaderData(br, plen) == Take(Drop(br.s, br.i), plen)
bytesReaderAdvance(br, plen) == [br EXCEPT !.i = @ + Len(bytesReaderData(br, plen))]

\* ------------------------------------------------------------------ Fanout
New(size) ==
    [size |-> size, err |-> "nil", readers |-> <<>>, buf |-> Zeros(size),
     current |-> 0, once |-> FALSE, lock |-> "free", done |-> 0]

NoReader ==
    [made |-> FALSE, channel |-> <<>>, cap |-> 0, chClosed |-> 0,
     channelClosed |-> FALSE, readerClosed |-> FALSE, buf |-> <<>>,
     bufReader |-> NilReader, current |-> 0, fullBufReader |-> NilReader,
     seekAt |-> -1, seekable |-> FALSE]

IdleCall ==
    [pc |-> "idle", op |-> "none", plen |-> 0, n |-> 0, e |-> "nil", size |-> 0,
     closed |-> FALSE, closeReader |-> FALSE, after |-> FALSE,
     offset |-> 0, whence |-> "start"]

NoRet == [op |-> "none", n |-> 0, e |-> "nil", after |-> FALSE]

IdleProd ==
    [pc |-> "idle", n |-> 0, e |-> "nil", bn |-> <<>>, readersCopy |-> <<>>, i |-> 0]

\* No Blob: the fan-out is used on its own, over a source stream that may split
\* its bytes into reads of any length (grain 1) and may fail.
NoBlob == [ctor |-> "none", grain |-> 1, mayFail |-> TRUE]

\* No request scope and no server: the fan-out and the Blob are used on their own.
NoCtx == [made |-> FALSE]
NoApp == [built |-> "none"]

Init ==
    /\ source \in {Stream(k) : k \in 0..MaxLen}
    /\ declared \in 1..MaxLen
    /\ srcPos = 0
    /\ srcClosed = 0
    /\ f = New(declared)
    /\ prod = IdleProd
    /\ r = [c \in Consumers |-> NoReader]
    /\ call = [c \in Consumers |-> IdleCall]
    /\ out = [c \in Consumers |-> <<>>]
    /\ ret = [c \in Consumers |-> NoRet]
    /\ closer = [c \in Consumers |-> [called |-> FALSE, mid |-> 0, returned |-> FALSE]]
    /\ panic = "none"
    /\ starts = 0
    /\ readCalled = FALSE
    /\ blob = NoBlob
    /\ ctx = NoCtx
    /\ app = NoApp

\* ------------------------------------------------------- Fanout.NewReader
\* The channel capacity a new Reader gets.
chanCap(size) == size \div ChanUnit + 1

NewReader(c) ==
    /\ panic = "none"
    /\ UNCHANGED <<blob, ctx, app>>
    /\ f.lock = "free"
    /\ c = Len(f.readers) + 1
    /\ c \in Consumers
    /\ r' = [r EXCEPT ![c] =
                [NoReader EXCEPT !.made = TRUE,
                                 !.cap = chanCap(f.size),
                                 !.current = f.current,
                                 !.bufReader = bytesNewReader(Take(f.buf, f.current))]]
    /\ f' = [f EXCEPT !.readers = Append(@, c)]
    /\ UNCHANGED <<source, declared, srcPos, srcClosed, prod, call, out, ret,
                   closer, panic, starts, readCalled>>

\* ------------------------------------------------------------- Fanout.do
\* Mutant: do() without the sync.Once, launching readAll on every call.
onceDo_everyCall == TRUE

\* sync.Once: whether this call of do() is the one that runs the function.
onceDo == ~f.once

\* -------------------------------------------------------- Fanout.readAll
\* What one source.Read(b) with len(b) = lenb may return: <<n, e>>.
SourceReads(lenb) ==
    LET rem == Len(source) - srcPos IN
    {x \in (0..Min(lenb, rem)) \X {"nil", "EOF", "ERR"} :
        /\ (x[2] = "nil" => x[1] > 0)
        /\ (x[2] = "EOF" => x[1] = rem)
        /\ (x[2] = "ERR" => blob.mayFail)
        /\ (x[1] = Min(lenb, rem) \/ x[1] % blob.grain = 0)}

\* Mutant: the source reads into the start of the buffer, not above the cursor.
readAll_read_fromStart ==
    /\ panic = "none"
    /\ UNCHANGED <<blob, ctx, app>>
    /\ prod.pc = "read"
    /\ f.lock = "free"
    /\ \E x \in SourceReads(Len(f.buf) - f.current) :
         LET n0 == x[1]
             n == IF f.current + n0 > f.size THEN f.size - f.current ELSE n0
             b == SubSeq(source, srcPos + 1, srcPos + n0)
             newbuf == b \o Drop(f.buf, n0)
             cur == f.current + n
             eof0 == x[2] = "EOF" /\ n = 0
         IN /\ srcPos' = srcPos + n0
            /\ f' = [f EXCEPT !.current = cur,
                              !.buf = IF eof0 /\ cur < f.size THEN Take(newbuf, cur)
                                      ELSE newbuf,
                              !.size = IF eof0 THEN cur ELSE @,
                              !.err = IF x[2] = "ERR" THEN "ERR" ELSE @]
            /\ prod' = [prod EXCEPT !.pc = "rlock", !.n = n,
                                    !.e = IF x[2] = "EOF" THEN "nil" ELSE x[2],
                                    !.bn = IF n > 0 THEN Take(b, n) ELSE <<>>,
                                    !.readersCopy = f.readers]
    /\ UNCHANGED <<source, declared, srcClosed, r, call, out, ret, closer,
                   panic, starts, readCalled>>

\* Mutant: end-of-stream leaves the size and the buffer as they were declared.
readAll_read_keepsSize ==
    /\ panic = "none"
    /\ UNCHANGED <<blob, ctx, app>>
    /\ prod.pc = "read"
    /\ f.lock = "free"
    /\ \E x \in SourceReads(Len(f.buf) - f.current) :
         LET n0 == x[1]
             n == IF f.current + n0 > f.size THEN f.size - f.current ELSE n0
             b == SubSeq(source, srcPos + 1, srcPos + n0)
             newbuf == Take(f.buf, f.current) \o b \o Drop(f.buf, f.current + n0)
             cur == f.current + n
             eof0 == x[2] = "EOF" /\ n = 0
         IN /\ srcPos' = srcPos + n0
            /\ f' = [f EXCEPT !.current = cur,
                              !.buf = newbuf,
                              !.err = IF x[2] = "ERR" THEN "ERR" ELSE @]
            /\ prod' = [prod EXCEPT !.pc = "rlock", !.n = n,
                                    !.e = IF x[2] = "EOF" THEN "nil" ELSE x[2],
                                    !.bn = IF n > 0 THEN Take(b, n) ELSE <<>>,
                                    !.readersCopy = f.readers]
    /\ UNCHANGED <<source, declared, srcClosed, r, call, out, ret, closer,
                   panic, starts, readCalled>>

\* lines 49-74: source.Read into f.buf[f.current:], the cap on n, the chunk bn,
\* and the exclusive section.  The read touches only what the producer owns
\* (the source and the buffer above the cursor), so it is one step with the
\* section that publishes it.
readAll_read ==
    /\ panic = "none"
    /\ UNCHANGED <<blob, ctx, app>>
    /\ prod.pc = "read"
    /\ f.lock = "free"
    /\ \E x \in SourceReads(Len(f.buf) - f.current) :
         LET n0 == x[1]
             n == IF f.current + n0 > f.size THEN f.size - f.current ELSE n0
             b == SubSeq(source, srcPos + 1, srcPos + n0)
             newbuf == Take(f.buf, f.current) \o b \o Drop(f.buf, f.current + n0)
             cur == f.current + n
             eof0 == x[2] = "EOF" /\ n = 0
         IN /\ srcPos' = srcPos + n0
            /\ f' = [f EXCEPT !.current = cur,
                              !.buf = IF eof0 /\ cur < f.size THEN Take(newbuf, cur)
                                      ELSE newbuf,
                              !.size = IF eof0 THEN cur ELSE @,
                              !.err = IF x[2] = "ERR" THEN "ERR" ELSE @]
            /\ prod' = [prod EXCEPT !.pc = "rlock", !.n = n,
                                    !.e = IF x[2] = "EOF" THEN "nil" ELSE x[2],
                                    !.bn = IF n > 0 THEN Take(b, n) ELSE <<>>,
                                    !.readersCopy = f.readers]
    /\ UNCHANGED <<source, declared, srcClosed, r, call, out, ret, closer,
                   panic, starts, readCalled>>

\* Mutant: the broadcast ranges over the registry as it is when the shared
\* lock is taken, not over the copy made in the exclusive section.
readAll_rlock_rereadsRegistry ==
    /\ panic = "none"
    /\ UNCHANGED <<blob, ctx, app>>
    /\ prod.pc = "rlock"
    /\ f.lock = "free"
    /\ f' = [f EXCEPT !.lock = "R"]
    /\ prod' = [prod EXCEPT !.pc = "send", !.i = 1, !.readersCopy = f.readers]
    /\ UNCHANGED <<source, declared, srcPos, srcClosed, r, call, out, ret,
                   closer, panic, starts, readCalled>>

\* Mutant: the broadcast runs without taking the shared lock.
readAll_rlock_skipped ==
    /\ panic = "none"
    /\ UNCHANGED <<blob, ctx, app>>
    /\ prod.pc = "rlock"
    /\ prod' = [prod EXCEPT !.pc = "send", !.i = 1]
    /\ UNCHANGED <<source, declared, srcPos, srcClosed, f, r, call, out, ret,
                   closer, panic, starts, readCalled>>

\* line 75: f.lock.RLock()
readAll_rlock ==
    /\ panic = "none"
    /\ UNCHANGED <<blob, ctx, app>>
    /\ prod.pc = "rlock"
    /\ f.lock = "free"
    /\ f' = [f EXCEPT !.lock = "R"]
    /\ prod' = [prod EXCEPT !.pc = "send", !.i = 1]
    /\ UNCHANGED <<source, declared, srcPos, srcClosed, r, call, out, ret,
                   closer, panic, starts, readCalled>>

\* Mutant: the broadcast loop stops at the first closed consumer (break for
\* continue), so the consumers registered after it miss the chunk.
readAll_send_stopsAtClosed ==
    /\ panic = "none"
    /\ UNCHANGED <<blob, ctx, app>>
    /\ prod.pc = "send"
    /\ prod.i <= Len(prod.readersCopy)
    /\ LET c == prod.readersCopy[prod.i] IN
         IF r[c].channelClosed
         THEN /\ prod' = [prod EXCEPT !.i = Len(prod.readersCopy) + 1]
              /\ UNCHANGED <<r, panic>>
         ELSE /\ Len(r[c].channel) < r[c].cap
              /\ r' = [r EXCEPT ![c].channel = Append(@, prod.bn)]
              /\ prod' = [prod EXCEPT !.i = @ + 1]
              /\ UNCHANGED panic
    /\ UNCHANGED <<source, declared, srcPos, srcClosed, f, call, out, ret,
                   closer, starts, readCalled>>

\* lines 76-80: one iteration of the broadcast loop; the send blocks while the
\* channel is full
readAll_send ==
    /\ panic = "none"
    /\ UNCHANGED <<blob, ctx, app>>
    /\ prod.pc = "send"
    /\ prod.i <= Len(prod.readersCopy)
    /\ LET c == prod.readersCopy[prod.i] IN
         IF r[c].channelClosed
         THEN /\ prod' = [prod EXCEPT !.i = @ + 1]
              /\ UNCHANGED <<r, panic>>
         ELSE IF r[c].chClosed > 0
         THEN /\ panic' = "send on closed channel"
              /\ UNCHANGED <<r, prod>>
         ELSE /\ Len(r[c].channel) < r[c].cap
              /\ r' = [r EXCEPT ![c].channel = Append(@, prod.bn)]
              /\ prod' = [prod EXCEPT !.i = @ + 1]
              /\ UNCHANGED panic
    /\ UNCHANGED <<source, declared, srcPos, srcClosed, f, call, out, ret,
                   closer, starts, readCalled>>

\* lines 81-84 and the deferred source.Close() of lines 45-47
readAll_runlock ==
    /\ panic = "none"
    /\ UNCHANGED <<blob, ctx, app>>
    /\ prod.pc = "send"
    /\ prod.i > Len(prod.readersCopy)
    /\ f' = [f EXCEPT !.lock = "free"]
    /\ IF prod.e # "nil" \/ f.current >= f.size
       THEN /\ prod' = [prod EXCEPT !.pc = "done"]
            /\ srcClosed' = srcClosed + 1
       ELSE /\ prod' = [prod EXCEPT !.pc = "read"]
            /\ UNCHANGED srcClosed
    /\ UNCHANGED <<source, declared, srcPos, r, call, out, ret, closer, panic,
                   starts, readCalled>>

\* ----------------------------------------------------------- Reader.close
\* Mutant: close() closes the channel without testing channelClosed.
closeMustCloseChannel_untested(rc) == TRUE

\* lines 154-160: whether this close() call is the one that closes the channel
closeMustCloseChannel(rc) == ~rc.channelClosed

\* lines 151-158: the exclusive section of close(closeReader)

closeLocked(rc, closeReader) ==
    [rc EXCEPT !.readerClosed = closeReader, !.channelClosed = TRUE]

\* line 159: close(r.channel); closing a closed channel panics
closeChannel(rc) == [rc EXCEPT !.chClosed = @ + 1]

\* ------------------------------------------------------------ Reader.Read
Return(c, n, e) ==
    /\ call' = [call EXCEPT ![c] = IdleCall]
    /\ ret' = [ret EXCEPT ![c] = [op |-> call[c].op, n |-> n, e |-> e,
                                  after |-> call[c].after]]

\* lines 102-115: do(), the readerClosed test, the replay of the buffered bytes
Read_call(c, plen) ==
    /\ panic = "none"
    /\ UNCHANGED <<blob, ctx, app>>
    /\ r[c].made
    /\ call[c].pc = "idle"
    /\ readCalled' = TRUE
    /\ f' = [f EXCEPT !.once = TRUE]
    /\ prod' = IF onceDo THEN [prod EXCEPT !.pc = "read"] ELSE prod
    /\ starts' = IF onceDo THEN starts + 1 ELSE starts
    /\ LET k == [IdleCall EXCEPT !.op = "Read", !.plen = plen,
                                 !.after = closer[c].returned]
           br == r[c].bufReader
       IN IF r[c].readerClosed
          THEN /\ ret' = [ret EXCEPT ![c] = [op |-> "Read", n |-> 0,
                                             e |-> "ErrClosedPipe", after |-> k.after]]
               /\ UNCHANGED <<call, r, out>>
          ELSE IF br.live /\ ~bytesReaderAtEOF(br)
          THEN /\ ret' = [ret EXCEPT ![c] =
                             [op |-> "Read", n |-> Len(bytesReaderData(br, plen)),
                              e |-> "nil", after |-> k.after]]
               /\ out' = [out EXCEPT ![c] = @ \o bytesReaderData(br, plen)]
               /\ r' = [r EXCEPT ![c].bufReader = bytesReaderAdvance(br, plen)]
               /\ UNCHANGED call
          ELSE /\ r' = [r EXCEPT ![c].bufReader = NilReader]
               /\ call' = [call EXCEPT ![c] = [k EXCEPT !.pc = "sample"]]
               /\ UNCHANGED <<ret, out>>
    /\ UNCHANGED <<source, declared, srcPos, srcClosed, closer, panic>>

\* lines 116-120: the shared section that samples err, size, channelClosed
Read_sample(c) ==
    /\ panic = "none"
    /\ UNCHANGED <<blob, ctx, app>>
    /\ call[c].pc = "sample"
    /\ call' = [call EXCEPT ![c].pc = "loop", ![c].e = f.err, ![c].size = f.size,
                            ![c].closed = r[c].channelClosed]
    /\ UNCHANGED <<source, declared, srcPos, srcClosed, f, prod, r, out, ret,
                   closer, panic, starts, readCalled>>

\* lines 122-147: one iteration of the loop
Read_loop(c) ==
    /\ panic = "none"
    /\ UNCHANGED <<blob, ctx, app>>
    /\ call[c].pc = "loop"
    /\ LET k == call[c]
           rc == r[c]
       IN IF rc.current >= k.size
          THEN Return(c, 0, "EOF") /\ UNCHANGED <<r, out>>
          ELSE IF k.closed
          THEN Return(c, 0, "ErrClosedPipe") /\ UNCHANGED <<r, out>>
          ELSE IF k.e # "nil"
          THEN /\ call' = [call EXCEPT ![c].pc = "closeLock", ![c].closeReader = TRUE]
               /\ UNCHANGED <<r, out, ret>>
          ELSE /\ (rc.buf # <<>> \/ rc.channel # <<>> \/ rc.chClosed > 0)
               /\ LET recv == rc.buf = <<>>
                      b1 == IF ~recv THEN rc.buf
                            ELSE IF rc.channel # <<>> THEN Head(rc.channel) ELSE <<>>
                      ch1 == IF recv /\ rc.channel # <<>> THEN Tail(rc.channel)
                             ELSE rc.channel
                      nn == Min(k.plen - k.n, Len(b1))
                  IN IF nn = 0
                     THEN /\ r' = [r EXCEPT ![c].buf = b1, ![c].channel = ch1]
                          /\ Return(c, k.n, k.e)
                          /\ UNCHANGED out
                     ELSE /\ r' = [r EXCEPT ![c].buf = Drop(b1, nn),
                                            ![c].channel = ch1,
                                            ![c].current = @ + nn]
                          /\ out' = [out EXCEPT ![c] = @ \o Take(b1, nn)]
                          /\ call' = [call EXCEPT
                                 ![c].n = @ + nn,
                                 ![c].pc = IF rc.current + nn >= k.size
                                           THEN "closeLock" ELSE "loop",
                                 ![c].closeReader = FALSE]
                          /\ UNCHANGED ret
    /\ UNCHANGED <<source, declared, srcPos, srcClosed, f, prod, closer, panic,
                   starts, readCalled>>

\* lines 130 and 144: the exclusive section of r.close called from Read
Read_closeLock(c) ==
    /\ panic = "none"
    /\ UNCHANGED <<blob, ctx, app>>
    /\ call[c].pc = "closeLock"
    /\ f.lock = "free"
    /\ r' = [r EXCEPT ![c] = closeLocked(@, call[c].closeReader)]
    /\ IF closeMustCloseChannel(r[c])
       THEN call' = [call EXCEPT ![c].pc = "closeChan"] /\ UNCHANGED ret
       ELSE Return(c, call[c].n, call[c].e)
    /\ UNCHANGED <<source, declared, srcPos, srcClosed, f, prod, out, closer,
                   panic, starts, readCalled>>

\* close(r.channel) of that call, and the return of Read
Read_closeChan(c) ==
    /\ panic = "none"
    /\ UNCHANGED <<blob, ctx, app>>
    /\ call[c].pc = "closeChan"
    /\ IF r[c].chClosed > 0
       THEN panic' = "close of closed channel" /\ UNCHANGED <<r, call, ret>>
       ELSE /\ r' = [r EXCEPT ![c] = closeChannel(@)]
            /\ Return(c, call[c].n, call[c].e)
            /\ UNCHANGED panic
    /\ UNCHANGED <<source, declared, srcPos, srcClosed, f, prod, out, closer,
                   starts, readCalled>>

\* ----------------------------------------------------------- Reader.Close
\* Close() = close(true), called by any goroutine at any time: its exclusive
\* section, which returns when the channel was closed already
Close_lock(c) ==
    /\ panic = "none"
    /\ UNCHANGED <<blob, ctx, app>>
    /\ r[c].made
    /\ f.lock = "free"
    /\ r' = [r EXCEPT ![c] = closeLocked(@, TRUE)]
    /\ closer' = [closer EXCEPT
                     ![c].called = TRUE,
                     ![c].mid = IF closeMustCloseChannel(r[c]) THEN @ + 1 ELSE @,
                     ![c].returned = IF closeMustCloseChannel(r[c]) THEN @ ELSE TRUE]
    /\ UNCHANGED <<source, declared, srcPos, srcClosed, f, prod, call, out, ret,
                   panic, starts, readCalled>>

\* close(r.channel) of a Close call, and its return
Close_chan(c) ==
    /\ panic = "none"
    /\ UNCHANGED <<blob, ctx, app>>
    /\ closer[c].mid > 0
    /\ IF r[c].chClosed > 0
       THEN panic' = "close of closed channel" /\ UNCHANGED <<r, closer>>
       ELSE /\ r' = [r EXCEPT ![c] = closeChannel(@)]
            /\ closer' = [closer EXCEPT ![c].mid = @ - 1, ![c].returned = TRUE]
            /\ UNCHANGED panic
    /\ UNCHANGED <<source, declared, srcPos, srcClosed, f, prod, call, out, ret,
                   starts, readCalled>>

Next ==
    \/ \E c \in Consumers : NewReader(c)
    \/ \E c \in Consumers, plen \in 1..MaxP : Read_call(c, plen)
    \/ \E c \in Consumers : Read_sample(c)
    \/ \E c \in Consumers : Read_loop(c)
    \/ \E c \in Consumers : Read_closeLock(c)
    \/ \E c \in Consumers : Read_closeChan(c)
    \/ \E c \in Consumers : Close_lock(c)
    \/ \E c \in Consumers : Close_chan(c)
    \/ readAll_read
    \/ readAll_rlock
    \/ readAll_send
    \/ readAll_runlock

Spec == Init /\ [][Next]_vars

\* The callers that keep reading and never call Close, under a fair scheduler:
\* the producer goroutine runs whenever it can, a Read call in progress goes
\* on whenever it can, and a consumer that exists is read again and again.
NextReading ==
    \/ \E c \in Consumers : NewReader(c)
    \/ \E c \in Consumers, plen \in 1..MaxP : Read_call(c, plen)
    \/ \E c \in Consumers : Read_sample(c)
    \/ \E c \in Consumers : Read_loop(c)
    \/ \E c \in Consumers : Read_closeLock(c)
    \/ \E c \in Consumers : Read_closeChan(c)
    \/ readAll_read
    \/ readAll_rlock
    \/ readAll_send
    \/ readAll_runlock

FairReading ==
    /\ WF_vars(readAll_read)
    /\ WF_vars(readAll_rlock)
    /\ WF_vars(readAll_send)
    /\ WF_vars(readAll_runlock)
    /\ \A c \in Consumers :
          /\ WF_vars(\E plen \in 1..MaxP : Read_call(c, plen))
          /\ WF_vars(Read_sample(c))
          /\ WF_vars(Read_loop(c))
          /\ WF_vars(Read_closeLock(c))
          /\ WF_vars(Read_closeChan(c))

SpecReading == Init /\ [][NextReading]_vars /\ FairReading

(***************************************************************************)
(* SpecFanoutReader models the closure fanoutReader(source, size) that     *)
(* Blob.init calls (src/unnamed/part_000, lines 194-351): the same         *)
(* producer and consumers held in closure variables, plus a done channel   *)
(* and a seeker per consumer.  The closure variables are kept in the       *)
(* fields of f and r that hold their namesakes of package fanout:          *)
(*   size, err, buf      f.size, f.err, f.buf                              *)
(*   currentSize         f.current                                         *)
(*   consumers           f.readers        closed[i]   r[i].channelClosed   *)
(*   done                f.done (number of close(done) calls)              *)
(*   ch, b, cnt          r[i].channel, r[i].buf, r[i].current              *)
(*   bufReader, fullBufReader, readerClosed   the fields of r[i]           *)
(***************************************************************************)

Seekers == 1..NumSeekers

\* lines 194-202: the closure variables after fanoutReader(source, size)
InitFanoutReader ==
    /\ source \in {Stream(k) : k \in 0..MaxLenSeek}
    /\ declared \in 1..MaxLenSeek
    /\ srcPos = 0
    /\ srcClosed = 0
    /\ f = New(declared)
    /\ prod = IdleProd
    /\ r = [c \in Consumers |-> NoReader]
    /\ call = [c \in Consumers |-> IdleCall]
    /\ out = [c \in Consumers |-> <<>>]
    /\ ret = [c \in Consumers |-> NoRet]
    /\ closer = [c \in Consumers |-> [called |-> FALSE, mid |-> 0, returned |-> FALSE]]
    /\ panic = "none"
    /\ starts = 0
    /\ readCalled = FALSE
    /\ blob = NoBlob
    /\ ctx = NoCtx
    /\ app = NoApp

\* bytes.Reader.Seek(offset, whence): the absolute position asked for
bytesReaderSeekAbs(br, offset, whence) ==
    CASE whence = "start" -> offset
      [] whence = "current" -> br.i + offset
      [] OTHER -> Len(br.s) + offset

\* the arguments Seek is called with
SeekArgs == {-1, 0, 1} \X {"start", "current", "end"}

\* lines 204-230: source.Read(buf[currentSize:]), the chunk bn =
\* buf[currentSize:n], and the exclusive section.  A slice expression whose
\* low bound exceeds its high bound panics.
fr_init_read ==
    /\ panic = "none"
    /\ UNCHANGED <<blob, ctx, app>>
    /\ prod.pc = "read"
    /\ f.lock = "free"
    /\ \E x \in SourceReads(Len(f.buf) - f.current) :
         LET n == x[1]
             b == SubSeq(source, srcPos + 1, srcPos + n)
             newbuf == Take(f.buf, f.current) \o b \o Drop(f.buf, f.current + n)
             cur == f.current + n
             eof0 == x[2] = "EOF" /\ n = 0
         IN /\ srcPos' = srcPos + n
            /\ IF n > 0 /\ f.current > n
               THEN /\ panic' = "slice bounds out of range"
                    /\ f' = [f EXCEPT !.buf = newbuf]
                    /\ UNCHANGED prod
               ELSE /\ f' = [f EXCEPT
                              !.current = cur,
                              !.buf = IF eof0 /\ cur < f.size THEN Take(newbuf, cur)
                                      ELSE newbuf,
                              !.size = IF eof0 THEN cur ELSE @,
                              !.err = IF x[2] = "ERR" THEN "ERR" ELSE @]
                    /\ prod' = [prod EXCEPT
                              !.pc = "rlock", !.n = n,
                              !.e = IF x[2] = "EOF" THEN "nil" ELSE x[2],
                              !.bn = IF n > 0 THEN SubSeq(newbuf, f.current + 1, n)
                                     ELSE <<>>,
                              !.readersCopy = f.readers]
                    /\ UNCHANGED panic
    /\ UNCHANGED <<source, declared, srcClosed, r, call, out, ret, closer,
                   starts, readCalled>>

\* line 231: lock.RLock()
fr_init_rlock == readAll_rlock

\* lines 232-236: one iteration of the broadcast loop
fr_init_send == readAll_send

\* line 237: lock.RUnlock()
fr_init_runlock ==
    /\ panic = "none"
    /\ UNCHANGED <<blob, ctx, app>>
    /\ prod.pc = "send"
    /\ prod.i > Len(prod.readersCopy)
    /\ f' = [f EXCEPT !.lock = "free"]
    /\ prod' = [prod EXCEPT !.pc = "signal"]
    /\ UNCHANGED <<source, declared, srcPos, srcClosed, r, call, out, ret,
                   closer, panic, starts, readCalled>>

\* lines 238-243 and the deferred source.Close() of lines 205-207
fr_init_signal ==
    /\ panic = "none"
    /\ UNCHANGED <<blob, ctx, app>>
    /\ prod.pc = "signal"
    /\ f' = [f EXCEPT !.done = IF f.current >= f.size THEN @ + 1 ELSE @]
    /\ IF prod.e # "nil" \/ f.current >= f.size
       THEN /\ prod' = [prod EXCEPT !.pc = "done"]
            /\ srcClosed' = srcClosed + 1
       ELSE /\ prod' = [prod EXCEPT !.pc = "read"]
            /\ UNCHANGED srcClosed
    /\ UNCHANGED <<source, declared, srcPos, r, call, out, ret, closer, panic,
                   starts, readCalled>>

\* lines 247-257: the factory that mints a consumer
fr_factory(c) == c \in Seekers /\ NewReader(c)

\* lines 278-299: once.Do, the readerClosed test, the proxy to the full
\* buffer, the replay of the buffered bytes
fr_reader_call(c, plen) ==
    /\ panic = "none"
    /\ UNCHANGED <<blob, ctx, app>>
    /\ r[c].made
    /\ call[c].pc = "idle"
    /\ readCalled' = TRUE
    /\ f' = [f EXCEPT !.once = TRUE]
    /\ prod' = IF onceDo THEN [prod EXCEPT !.pc = "read"] ELSE prod
    /\ starts' = IF onceDo THEN starts + 1 ELSE starts
    /\ LET k == [IdleCall EXCEPT !.op = "Read", !.plen = plen,
                                 !.after = closer[c].returned]
           br == r[c].bufReader
           ffr == r[c].fullBufReader
       IN IF r[c].readerClosed
          THEN /\ ret' = [ret EXCEPT ![c] = [op |-> "Read", n |-> 0,
                                             e |-> "ErrClosedPipe", after |-> k.after]]
               /\ UNCHANGED <<call, r, out>>
          ELSE IF ffr.live
          THEN /\ ret' = [ret EXCEPT ![c] =
                             [op |-> "Read", n |-> Len(bytesReaderData(ffr, plen)),
                              e |-> IF bytesReaderAtEOF(ffr) THEN "EOF" ELSE "nil",
                              after |-> k.after]]
               /\ out' = [out EXCEPT ![c] = @ \o bytesReaderData(ffr, plen)]
               /\ r' = [r EXCEPT ![c].fullBufReader = bytesReaderAdvance(ffr, plen)]
               /\ UNCHANGED call
          ELSE IF br.live /\ ~bytesReaderAtEOF(br)
          THEN /\ ret' = [ret EXCEPT ![c] =
                             [op |-> "Read", n |-> Len(bytesReaderData(br, plen)),
                              e |-> "nil", after |-> k.after]]
               /\ out' = [out EXCEPT ![c] = @ \o bytesReaderData(br, plen)]
               /\ r' = [r EXCEPT ![c].bufReader = bytesReaderAdvance(br, plen)]
               /\ UNCHANGED call
          ELSE /\ r' = [r EXCEPT ![c].bufReader = NilReader]
               /\ call' = [call EXCEPT ![c] = [k EXCEPT !.pc = "sample"]]
               /\ UNCHANGED <<ret, out>>
    /\ UNCHANGED <<source, declared, srcPos, srcClosed, closer, panic>>

\* lines 300-304: the shared section that samples err, size, closed[i]
fr_reader_sample(c) == Read_sample(c)

\* lines 306-331: one iteration of the loop
fr_reader_loop(c) == Read_loop(c)

\* lines 262-270, called from the reader: the exclusive section of closeCh
fr_reader_closeLock(c) == Read_closeLock(c)

\* line 271, called from the reader: close(ch)
fr_reader_closeChan(c) == Read_closeChan(c)

\* lines 275-277: the closer, closeCh(true): its exclusive section
fr_closer_lock(c) == Close_lock(c)

\* line 271, called from the closer: close(ch)
fr_closer_chan(c) == Close_chan(c)

\* The return of a Seek call that reached fullBufReader.Seek(offset, whence).
SeekReturn(c, ffr, offset, whence, after) ==
    LET abs == bytesReaderSeekAbs(ffr, offset, whence) IN
    IF abs < 0
    THEN /\ ret' = [ret EXCEPT ![c] = [op |-> "Seek", n |-> 0,
                                       e |-> "ErrNegativePosition", after |-> after]]
         /\ UNCHANGED out
    ELSE /\ ret' = [ret EXCEPT ![c] = [op |-> "Seek", n |-> abs, e |-> "nil",
                                       after |-> after]]
         /\ out' = [out EXCEPT ![c] = <<>>]

\* bytes.Reader.Seek: the reader after the call
bytesReaderSeek(br, offset, whence) ==
    IF bytesReaderSeekAbs(br, offset, whence) < 0 THEN br
    ELSE [br EXCEPT !.i = bytesReaderSeekAbs(br, offset, whence)]

\* the position the caller was given by its last successful Seek
seekAtAfter(old, br, offset, whence) ==
    IF bytesReaderSeekAbs(br, offset, whence) < 0 THEN old
    ELSE bytesReaderSeekAbs(br, offset, whence)

\* lines 333-347: once.Do and the three branches of the seeker.  The callers
\* modelled seek no further than one position past the end of the buffer.
fr_seeker_call(c, offset, whence) ==
    /\ panic = "none"
    /\ UNCHANGED <<blob, ctx, app>>
    /\ r[c].made
    /\ call[c].pc = "idle"
    /\ f' = [f EXCEPT !.once = TRUE]
    /\ prod' = IF onceDo THEN [prod EXCEPT !.pc = "read"] ELSE prod
    /\ starts' = IF onceDo THEN starts + 1 ELSE starts
    /\ LET ffr == r[c].fullBufReader
           after == closer[c].returned
       IN IF ffr.live /\ ~r[c].readerClosed
          THEN /\ bytesReaderSeekAbs(ffr, offset, whence) <= Len(ffr.s) + 1
               /\ r' = [r EXCEPT
                          ![c].fullBufReader = bytesReaderSeek(ffr, offset, whence),
                          ![c].seekAt = seekAtAfter(@, ffr, offset, whence)]
               /\ SeekReturn(c, ffr, offset, whence, after)
               /\ UNCHANGED call
          ELSE IF ~ffr.live /\ ~r[c].readerClosed
          THEN /\ call' = [call EXCEPT ![c] =
                              [IdleCall EXCEPT !.pc = "seekWait", !.op = "Seek",
                                               !.offset = offset, !.whence = whence,
                                               !.after = after]]
               /\ UNCHANGED <<r, ret, out>>
          ELSE /\ ret' = [ret EXCEPT ![c] = [op |-> "Seek", n |-> 0,
                                             e |-> "ErrClosedPipe", after |-> after]]
               /\ UNCHANGED <<r, call, out>>
    /\ UNCHANGED <<source, declared, srcPos, srcClosed, closer, panic, readCalled>>

\* Mutant: the seeker takes the buffer as it is, without waiting for done.
fr_seeker_wait_noWait(c) ==
    /\ panic = "none"
    /\ UNCHANGED <<blob, ctx, app>>
    /\ call[c].pc = "seekWait"
    /\ r' = [r EXCEPT ![c].fullBufReader = bytesNewReader(f.buf)]
    /\ call' = [call EXCEPT ![c].pc = "seekCloseLock"]
    /\ UNCHANGED <<source, declared, srcPos, srcClosed, f, prod, out, ret,
                   closer, panic, starts, readCalled>>

\* lines 341-342: <-done, then fullBufReader = bytes.NewReader(buf)
fr_seeker_wait(c) ==
    /\ panic = "none"
    /\ UNCHANGED <<blob, ctx, app>>
    /\ call[c].pc = "seekWait"
    /\ f.done > 0
    /\ r' = [r EXCEPT ![c].fullBufReader = bytesNewReader(f.buf)]
    /\ call' = [call EXCEPT ![c].pc = "seekCloseLock"]
    /\ UNCHANGED <<source, declared, srcPos, srcClosed, f, prod, out, ret,
                   closer, panic, starts, readCalled>>

\* line 343: closeCh(false), its exclusive section; line 344 when the channel
\* was closed already
fr_seeker_closeLock(c) ==
    /\ panic = "none"
    /\ UNCHANGED <<blob, ctx, app>>
    /\ call[c].pc = "seekCloseLock"
    /\ f.lock = "free"
    /\ LET k == call[c]
           ffr == r[c].fullBufReader
       IN IF closeMustCloseChannel(r[c])
          THEN /\ r' = [r EXCEPT ![c] = closeLocked(@, FALSE)]
               /\ call' = [call EXCEPT ![c].pc = "seekCloseChan"]
               /\ UNCHANGED <<ret, out>>
          ELSE /\ r' = [r EXCEPT
                          ![c] = [closeLocked(@, FALSE) EXCEPT
                                     !.fullBufReader = bytesReaderSeek(ffr, k.offset, k.whence),
                                     !.seekAt = seekAtAfter(@, ffr, k.offset, k.whence)]]
               /\ call' = [call EXCEPT ![c] = IdleCall]
               /\ SeekReturn(c, ffr, k.offset, k.whence, k.after)
    /\ UNCHANGED <<source, declared, srcPos, srcClosed, f, prod, closer, panic,
                   starts, readCalled>>

\* line 271 called from the seeker, close(ch), and line 344
fr_seeker_closeChan(c) ==
    /\ panic = "none"
    /\ UNCHANGED <<blob, ctx, app>>
    /\ call[c].pc = "seekCloseChan"
    /\ LET k == call[c]
           ffr == r[c].fullBufReader
       IN IF r[c].chClosed > 0
          THEN panic' = "close of closed channel" /\ UNCHANGED <<r, call, ret, out>>
          ELSE /\ r' = [r EXCEPT
                          ![c] = [closeChannel(@) EXCEPT
                                     !.fullBufReader = bytesReaderSeek(ffr, k.offset, k.whence),
                                     !.seekAt = seekAtAfter(@, ffr, k.offset, k.whence)]]
               /\ call' = [call EXCEPT ![c] = IdleCall]
               /\ SeekReturn(c, ffr, k.offset, k.whence, k.after)
               /\ UNCHANGED panic
    /\ UNCHANGED <<source, declared, srcPos, srcClosed, f, prod, closer,
                   starts, readCalled>>

NextFanoutReader ==
    \/ \E c \in Consumers : fr_factory(c)
    \/ \E c \in Consumers, plen \in 1..MaxP : fr_reader_call(c, plen)
    \/ \E c \in Consumers : fr_reader_sample(c)
    \/ \E c \in Consumers : fr_reader_loop(c)
    \/ \E c \in Consumers : fr_reader_closeLock(c)
    \/ \E c \in Consumers : fr_reader_closeChan(c)
    \/ \E c \in Consumers, a \in SeekArgs : fr_seeker_call(c, a[1], a[2])
    \/ \E c \in Consumers : fr_seeker_wait(c)
    \/ \E c \in Consumers : fr_seeker_closeLock(c)
    \/ \E c \in Consumers : fr_seeker_closeChan(c)
    \/ \E c \in Consumers : fr_closer_lock(c)
    \/ \E c \in Consumers : fr_closer_chan(c)
    \/ fr_init_read
    \/ fr_init_rlock
    \/ fr_init_send
    \/ fr_init_runlock
    \/ fr_init_signal

SpecFanoutReader == InitFanoutReader /\ [][NextFanoutReader]_vars

(***************************************************************************)
(* SpecSeekable models the closure fanoutReader(source, size) of           *)
(* src/fanout.go, whose factory takes a seekable flag: the buffer grows by *)
(* append, the producer reads into a fresh chunk of ChunkLen bytes and     *)
(* broadcasts over the registry as it is when the shared lock is taken.    *)
(* The closure variables are kept in the same fields as above (curr is     *)
(* f.current).                                                             *)
(***************************************************************************)

\* lines 9-17: the closure variables after fanoutReader(source, size)
InitSeekable ==
    /\ source \in {Stream(k) : k \in 0..MaxLenSeek}
    /\ declared \in 1..MaxLenSeek
    /\ srcPos = 0
    /\ srcClosed = 0
    /\ f = [New(declared) EXCEPT !.buf = <<>>]
    /\ prod = IdleProd
    /\ r = [c \in Consumers |-> NoReader]
    /\ call = [c \in Consumers |-> IdleCall]
    /\ out = [c \in Consumers |-> <<>>]
    /\ ret = [c \in Consumers |-> NoRet]
    /\ closer = [c \in Consumers |-> [called |-> FALSE, mid |-> 0, returned |-> FALSE]]
    /\ panic = "none"
    /\ starts = 0
    /\ readCalled = FALSE
    /\ blob = NoBlob
    /\ ctx = NoCtx
    /\ app = NoApp

\* lines 24-41: source.Read into a fresh chunk, the cap on n, bn = b[:n], and
\* the exclusive section that appends bn to buf
sk_init_read ==
    /\ panic = "none"
    /\ UNCHANGED <<blob, ctx, app>>
    /\ prod.pc = "read"
    /\ f.lock = "free"
    /\ \E x \in SourceReads(ChunkLen) :
         LET n0 == x[1]
             n == IF f.current + n0 > f.size THEN f.size - f.current ELSE n0
             bn == Take(SubSeq(source, srcPos + 1, srcPos + n0), n)
             cur == f.current + n
         IN /\ srcPos' = srcPos + n0
            /\ f' = [f EXCEPT !.buf = @ \o bn,
                              !.current = cur,
                              !.size = IF x[2] = "EOF" THEN cur ELSE @,
                              !.err = IF x[2] = "ERR" THEN "ERR" ELSE @]
            /\ prod' = [prod EXCEPT !.pc = "rlock", !.n = n, !.e = x[2], !.bn = bn]
    /\ UNCHANGED <<source, declared, srcClosed, r, call, out, ret, closer,
                   panic, starts, readCalled>>

\* lines 42-43: lock.RLock() and the range over consumers as it is now
sk_init_rlock ==
    /\ panic = "none"
    /\ UNCHANGED <<blob, ctx, app>>
    /\ prod.pc = "rlock"
    /\ f.lock = "free"
    /\ f' = [f EXCEPT !.lock = "R"]
    /\ prod' = [prod EXCEPT !.pc = "send", !.i = 1, !.readersCopy = f.readers]
    /\ UNCHANGED <<source, declared, srcPos, srcClosed, r, call, out, ret,
                   closer, panic, starts, readCalled>>

\* lines 43-47: one iteration of the broadcast loop
sk_init_send == readAll_send

\* lines 48-54: close(done) when curr >= size, lock.RUnlock(), the return test
\* and the deferred source.Close() of lines 20-22
sk_init_runlock ==
    /\ panic = "none"
    /\ UNCHANGED <<blob, ctx, app>>
    /\ prod.pc = "send"
    /\ prod.i > Len(prod.readersCopy)
    /\ f' = [f EXCEPT !.lock = "free",
                      !.done = IF f.current >= f.size THEN @ + 1 ELSE @]
    /\ IF prod.e # "nil" \/ f.current >= f.size
       THEN /\ prod' = [prod EXCEPT !.pc = "done"]
            /\ srcClosed' = srcClosed + 1
       ELSE /\ prod' = [prod EXCEPT !.pc = "read"]
            /\ UNCHANGED srcClosed
    /\ UNCHANGED <<source, declared, srcPos, r, call, out, ret, closer, panic,
                   starts, readCalled>>

\* line 59: the channel capacity a new consumer gets
sk_chanCap(size) == size \div ChunkLen + 1

\* lines 58-67: the factory that mints a consumer, seekable or not
sk_factory(c, seekable) ==
    /\ panic = "none"
    /\ UNCHANGED <<blob, ctx, app>>
    /\ f.lock = "free"
    /\ c = Len(f.readers) + 1
    /\ r' = [r EXCEPT ![c] =
                [NoReader EXCEPT !.made = TRUE,
                                 !.seekable = seekable,
                                 !.cap = sk_chanCap(f.size),
                                 !.current = Len(f.buf),
                                 !.bufReader = bytesNewReader(f.buf)]]
    /\ f' = [f EXCEPT !.readers = Append(@, c)]
    /\ UNCHANGED <<source, declared, srcPos, srcClosed, prod, call, out, ret,
                   closer, panic, starts, readCalled>>

\* lines 89-130: once.Do, the shared section that samples err, size,
\* closed[i], fullBufReader and readerClosed, the proxy to the full buffer, the
\* replay of the buffered bytes, and the tests before the receive.  The proxy
\* is ffr.Read(b): it reads into the chunk in hand b, not into the caller's p,
\* so the caller is told n bytes and finds in p[:n] what p held before the
\* call (zeros here; the stream has no zero byte).
sk_reader_call(c, plen) ==
    /\ panic = "none"
    /\ UNCHANGED <<blob, ctx, app>>
    /\ r[c].made
    /\ call[c].pc = "idle"
    /\ readCalled' = TRUE
    /\ f' = [f EXCEPT !.once = TRUE]
    /\ prod' = IF onceDo THEN [prod EXCEPT !.pc = "read"] ELSE prod
    /\ starts' = IF onceDo THEN starts + 1 ELSE starts
    /\ LET k == [IdleCall EXCEPT !.op = "Read", !.plen = plen,
                                 !.after = closer[c].returned,
                                 !.e = f.err, !.size = f.size,
                                 !.closed = r[c].channelClosed]
           br == r[c].bufReader
           ffr == r[c].fullBufReader
           b == r[c].buf
           p == Zeros(plen)
           Ret(n, e) == ret' = [ret EXCEPT ![c] = [op |-> "Read", n |-> n, e |-> e,
                                                   after |-> k.after]]
       IN IF ffr.live /\ ~r[c].readerClosed
          THEN /\ Ret(Len(bytesReaderData(ffr, Len(b))),
                      IF bytesReaderAtEOF(ffr) THEN "EOF" ELSE "nil")
               /\ out' = [out EXCEPT ![c] = @ \o Take(p, Len(bytesReaderData(ffr, Len(b))))]
               /\ r' = [r EXCEPT
                          ![c].fullBufReader = bytesReaderAdvance(ffr, Len(b)),
                          ![c].buf = bytesReaderData(ffr, Len(b))
                                         \o Drop(b, Len(bytesReaderData(ffr, Len(b))))]
               /\ UNCHANGED call
          ELSE IF br.live /\ ~bytesReaderAtEOF(br)
          THEN /\ Ret(Len(bytesReaderData(br, plen)), k.e)
               /\ out' = [out EXCEPT ![c] = @ \o bytesReaderData(br, plen)]
               /\ r' = [r EXCEPT ![c].bufReader = bytesReaderAdvance(br, plen)]
               /\ UNCHANGED call
          ELSE IF br.live /\ k.e # "nil"
          THEN /\ Ret(0, k.e)
               /\ r' = [r EXCEPT ![c].bufReader = NilReader]
               /\ UNCHANGED <<call, out>>
          ELSE /\ r' = [r EXCEPT ![c].bufReader = NilReader]
               /\ UNCHANGED out
               /\ IF r[c].current >= k.size
                  THEN Ret(0, "EOF") /\ UNCHANGED call
                  ELSE IF k.closed
                  THEN Ret(0, "ErrClosedPipe") /\ UNCHANGED call
                  ELSE IF k.e # "nil"
                  THEN /\ call' = [call EXCEPT ![c] =
                                      [k EXCEPT !.pc = "closeLock", !.closeReader = TRUE]]
                       /\ UNCHANGED ret
                  ELSE /\ call' = [call EXCEPT ![c] = [k EXCEPT !.pc = "recv"]]
                       /\ UNCHANGED ret
    /\ UNCHANGED <<source, declared, srcPos, srcClosed, closer, panic>>

\* lines 131-141: the receive when no chunk is in hand, the copy into p, the
\* count, and the test that ends the stream
sk_reader_recv(c) ==
    /\ panic = "none"
    /\ UNCHANGED <<blob, ctx, app>>
    /\ call[c].pc = "recv"
    /\ (r[c].buf # <<>> \/ r[c].channel # <<>> \/ r[c].chClosed > 0)
    /\ LET k == call[c]
           rc == r[c]
           recv == rc.buf = <<>>
           b1 == IF ~recv THEN rc.buf
                 ELSE IF rc.channel # <<>> THEN Head(rc.channel) ELSE <<>>
           ch1 == IF recv /\ rc.channel # <<>> THEN Tail(rc.channel) ELSE rc.channel
           n == Min(k.plen, Len(b1))
       IN /\ r' = [r EXCEPT ![c].buf = Drop(b1, n), ![c].channel = ch1,
                            ![c].current = @ + n]
          /\ out' = [out EXCEPT ![c] = @ \o Take(b1, n)]
          /\ IF rc.current + n >= k.size
             THEN /\ call' = [call EXCEPT ![c].pc = "closeLock", ![c].n = n,
                                          ![c].e = "EOF", ![c].closeReader = FALSE]
                  /\ UNCHANGED ret
             ELSE Return(c, n, k.e)
    /\ UNCHANGED <<source, declared, srcPos, srcClosed, f, prod, closer, panic,
                   starts, readCalled>>

\* lines 73-81, called from the reader: the exclusive section of closeCh
sk_reader_closeLock(c) == Read_closeLock(c)

\* line 82, called from the reader: close(ch)
sk_reader_closeChan(c) == Read_closeChan(c)

\* lines 86-88: the closer, closeCh(true): its exclusive section
sk_closer_lock(c) == Close_lock(c)

\* line 82, called from the closer: close(ch)
sk_closer_chan(c) == Close_chan(c)

\* lines 143-151 and 164-166: the seeker of a seekable consumer: the shared
\* section that samples fullBufReader and readerClosed, and its three
\* branches.  It does not start the producer.  The callers modelled seek no
\* further than one position past the end of the buffer.
sk_seeker_call(c, offset, whence) ==
    /\ panic = "none"
    /\ UNCHANGED <<blob, ctx, app>>
    /\ r[c].made
    /\ r[c].seekable
    /\ call[c].pc = "idle"
    /\ LET ffr == r[c].fullBufReader
           after == closer[c].returned
       IN IF ffr.live /\ ~r[c].readerClosed
          THEN /\ bytesReaderSeekAbs(ffr, offset, whence) <= Len(ffr.s) + 1
               /\ r' = [r EXCEPT
                          ![c].fullBufReader = bytesReaderSeek(ffr, offset, whence),
                          ![c].seekAt = seekAtAfter(@, ffr, offset, whence)]
               /\ SeekReturn(c, ffr, offset, whence, after)
               /\ UNCHANGED call
          ELSE IF ~ffr.live /\ ~r[c].readerClosed
          THEN /\ call' = [call EXCEPT ![c] =
                              [IdleCall EXCEPT !.pc = "seekWait", !.op = "Seek",
                                               !.offset = offset, !.whence = whence,
                                               !.after = after]]
               /\ UNCHANGED <<r, ret, out>>
          ELSE /\ ret' = [ret EXCEPT ![c] = [op |-> "Seek", n |-> 0,
                                             e |-> "ErrClosedPipe", after |-> after]]
               /\ UNCHANGED <<r, call, out>>
    /\ UNCHANGED <<source, declared, srcPos, srcClosed, f, prod, closer, panic,
                   starts, readCalled>>

\* lines 152-160: <-done, then the exclusive section that sets fullBufReader
\* and the closed flag; line 163 when the channel was closed already
sk_seeker_wait(c) ==
    /\ panic = "none"
    /\ UNCHANGED <<blob, ctx, app>>
    /\ call[c].pc = "seekWait"
    /\ f.done > 0
    /\ f.lock = "free"
    /\ LET k == call[c]
           ffr == bytesNewReader(f.buf)
       IN IF closeMustCloseChannel(r[c])
          THEN /\ r' = [r EXCEPT ![c].fullBufReader = ffr,
                                 ![c].channelClosed = TRUE]
               /\ call' = [call EXCEPT ![c].pc = "seekCloseChan"]
               /\ UNCHANGED <<ret, out>>
          ELSE /\ r' = [r EXCEPT
                          ![c].fullBufReader = bytesReaderSeek(ffr, k.offset, k.whence),
                          ![c].seekAt = seekAtAfter(@, ffr, k.offset, k.whence)]
               /\ call' = [call EXCEPT ![c] = IdleCall]
               /\ SeekReturn(c, ffr, k.offset, k.whence, k.after)
    /\ UNCHANGED <<source, declared, srcPos, srcClosed, f, prod, closer, panic,
                   starts, readCalled>>

\* lines 161-163: close(ch) and ffr.Seek(offset, whence)
sk_seeker_closeChan(c) == fr_seeker_closeChan(c)

NextSeekable ==
    \/ \E c \in Seekers, seekable \in BOOLEAN : sk_factory(c, seekable)
    \/ \E c \in Consumers, plen \in 1..MaxP : sk_reader_call(c, plen)
    \/ \E c \in Consumers : sk_reader_recv(c)
    \/ \E c \in Consumers : sk_reader_closeLock(c)
    \/ \E c \in Consumers : sk_reader_closeChan(c)
    \/ \E c \in Consumers, a \in SeekArgs : sk_seeker_call(c, a[1], a[2])
    \/ \E c \in Consumers : sk_seeker_wait(c)
    \/ \E c \in Consumers : sk_seeker_closeChan(c)
    \/ \E c \in Consumers : sk_closer_lock(c)
    \/ \E c \in Consumers : sk_closer_chan(c)
    \/ sk_init_read
    \/ sk_init_rlock
    \/ sk_init_send
    \/ sk_init_runlock

SpecSeekable == InitSeekable /\ [][NextSeekable]_vars

(***************************************************************************)
(* SpecLateJoin runs the same closure of src/fanout.go with two consumers  *)
(* that are not seekable and are never closed by their callers, over the   *)
(* shorter streams of MaxLen bytes: a consumer may be minted at any point  *)
(* of the producer loop.                                                   *)
(***************************************************************************)

InitLateJoin == InitSeekable /\ Len(source) <= MaxLen /\ declared <= MaxLen

NextLateJoin ==
    \/ \E c \in Consumers : sk_factory(c, FALSE)
    \/ \E c \in Consumers, plen \in 1..MaxP : sk_reader_call(c, plen)
    \/ \E c \in Consumers : sk_reader_recv(c)
    \/ \E c \in Consumers : sk_reader_closeLock(c)
    \/ \E c \in Consumers : sk_reader_closeChan(c)
    \/ sk_init_read
    \/ sk_init_rlock
    \/ sk_init_send
    \/ sk_init_runlock

SpecLateJoin == InitLateJoin /\ [][NextLateJoin]_vars

(***************************************************************************)
(* SpecBlob models the Blob of src/blob.go: its constructors, the sniffing *)
(* step Blob.init, the queries, and NewReader / NewReadSeeker / ReadAll.   *)
(* A fan-out memoized Blob runs on the closure fanoutReader modelled above *)
(* (SpecFanoutReader): its producer and consumers are the same actions,    *)
(* and the Blob's sniff and its readers issue the Read calls.  The content *)
(* of the Blob is the source stream, and the size its opener reports, when *)
(* it reports the exact size, is declared.                                 *)
(***************************************************************************)

\* ---------------------------------------------------------------- bounds
MaxHandles == 3        \* readers NewReader, NewReadSeeker and ReadAll hand out
ReadGrain == 12        \* a splitting stream hands out multiples of this, or the rest

\* ------------------------------------------------------------- constants
maxMemorySize == 104857600
PeekLen == 512
SniffMin == 24
ReadAllLen == 512

\* line 108-121: the magic numbers
jpegHeader == <<255, 216, 255>>
gifHeader == <<71, 73, 70>>
webpHeader == <<87, 69, 66, 80>>
pngHeader == <<137, 80, 78, 71>>
ftyp == <<102, 116, 121, 112>>
heic == <<104, 101, 105, 99>>
mif1 == <<109, 105, 102, 49>>
msf1 == <<109, 115, 102, 49>>
avif == <<97, 118, 105, 102>>
tifII == <<73, 73, 42, 0>>
tifMM == <<77, 77, 0, 42>>

\* b[lo:hi] of a Go slice that is long enough
Slice(b, lo, hi) == SubSeq(b, lo + 1, hi)

\* Mutant: the sniffing table is applied to a Blob whose type is JSON too.
sniffBlobType_overJSON(blobType, buf) ==
    IF blobType # "Empty" /\ Len(buf) > SniffMin
    THEN IF Slice(buf, 0, 3) = jpegHeader THEN "JPEG"
         ELSE IF Slice(buf, 0, 4) = pngHeader THEN "PNG"
         ELSE IF Slice(buf, 0, 3) = gifHeader THEN "GIF"
         ELSE IF Slice(buf, 8, 12) = webpHeader THEN "WEBP"
         ELSE IF Slice(buf, 4, 8) = ftyp /\ Slice(buf, 8, 12) = avif THEN "AVIF"
         ELSE IF Slice(buf, 4, 8) = ftyp /\ (\/ Slice(buf, 8, 12) = heic
                                             \/ Slice(buf, 8, 12) = mif1
                                             \/ Slice(buf, 8, 12) = msf1) THEN "HEIF"
         ELSE IF Slice(buf, 0, 4) = tifII \/ Slice(buf, 0, 4) = tifMM THEN "TIFF"
         ELSE blobType
    ELSE blobType

\* lines 208-227: the sniffing table, applied to the peeked prefix
sniffBlobType(blobType, buf) ==
    IF blobType # "Empty" /\ blobType # "JSON" /\ Len(buf) > SniffMin
    THEN IF Slice(buf, 0, 3) = jpegHeader THEN "JPEG"
         ELSE IF Slice(buf, 0, 4) = pngHeader THEN "PNG"
         ELSE IF Slice(buf, 0, 3) = gifHeader THEN "GIF"
         ELSE IF Slice(buf, 8, 12) = webpHeader THEN "WEBP"
         ELSE IF Slice(buf, 4, 8) = ftyp /\ Slice(buf, 8, 12) = avif THEN "AVIF"
         ELSE IF Slice(buf, 4, 8) = ftyp /\ (\/ Slice(buf, 8, 12) = heic
                                             \/ Slice(buf, 8, 12) = mif1
                                             \/ Slice(buf, 8, 12) = msf1) THEN "HEIF"
         ELSE IF Slice(buf, 0, 4) = tifII \/ Slice(buf, 0, 4) = tifMM THEN "TIFF"
         ELSE blobType
    ELSE blobType

\* http.DetectContentType, for the signatures the contents modelled here can
\* match: GIF87a / GIF89a, RIFF....WEBPVP, the PNG signature, FF D8 FF, then
\* text against binary data.
DetectContentType(data) ==
    LET has(sig) == Len(data) >= Len(sig) /\ Slice(data, 0, Len(sig)) = sig
        binary(b) == b <= 8 \/ b = 11 \/ (14 <= b /\ b <= 26) \/ (28 <= b /\ b <= 31)
    IN IF has(<<71, 73, 70, 56, 55, 97>>) \/ has(<<71, 73, 70, 56, 57, 97>>)
       THEN "image/gif"
       ELSE IF Len(data) >= 14 /\ Slice(data, 0, 4) = <<82, 73, 70, 70>>
                               /\ Slice(data, 8, 14) = <<87, 69, 66, 80, 86, 80>>
       THEN "image/webp"
       ELSE IF has(<<137, 80, 78, 71, 13, 10, 26, 10>>) THEN "image/png"
       ELSE IF has(<<255, 216, 255>>) THEN "image/jpeg"
       ELSE IF \E i \in DOMAIN data : binary(data[i]) THEN "application/octet-stream"
       ELSE "text/plain; charset=utf-8"

\* Mutant: the sniff sets the content type whether or not one was given.
sniffContentType_always(contentType, blobType, buf) ==
    CASE blobType = "JSON" -> "application/json"
      [] blobType = "JPEG" -> "image/jpeg"
      [] blobType = "PNG" -> "image/png"
      [] blobType = "GIF" -> "image/gif"
      [] blobType = "WEBP" -> "image/webp"
      [] blobType = "AVIF" -> "image/avif"
      [] blobType = "HEIF" -> "image/heif"
      [] blobType = "TIFF" -> "image/tiff"
      [] OTHER -> DetectContentType(buf)

\* lines 228-249: the content type, unless SetContentType gave one
sniffContentType(contentType, blobType, buf) ==
    IF contentType # "" THEN contentType
    ELSE CASE blobType = "JSON" -> "application/json"
           [] blobType = "JPEG" -> "image/jpeg"
           [] blobType = "PNG" -> "image/png"
           [] blobType = "GIF" -> "image/gif"
           [] blobType = "WEBP" -> "image/webp"
           [] blobType = "AVIF" -> "image/avif"
           [] blobType = "HEIF" -> "image/heif"
           [] blobType = "TIFF" -> "image/tiff"
           [] OTHER -> DetectContentType(buf)

\* --------------------------------------------------------------- contents
\* s followed by the bytes that bring it to length n; byte i of the padding is i
PadTo(s, n) == s \o SubSeq(Stream(n), Len(s) + 1, n)

JPEG12 == <<255, 216, 255, 224, 0, 16, 74, 70, 73, 70, 0, 1>>
AVIF24 == PadTo(<<0, 0, 0, 24>> \o ftyp \o avif, SniffMin)

\* The contents a Blob is built over: nothing, short contents, the two
\* contents of the spec's sniffing examples, and one content longer than the
\* sniffing table's minimum for every row of the table and for no row.
Contents ==
    {<<>>, <<1>>, <<123, 125>>, JPEG12, AVIF24,
     PadTo(JPEG12, SniffMin + 1),
     PadTo(pngHeader, SniffMin + 1),
     PadTo(gifHeader, SniffMin + 1),
     PadTo(<<82, 73, 70, 70, 5, 6, 7, 8>> \o webpHeader, SniffMin + 1),
     PadTo(AVIF24, SniffMin + 1),
     PadTo(<<0, 0, 0, 24>> \o ftyp \o heic, SniffMin + 1),
     PadTo(tifII, SniffMin + 1),
     Stream(SniffMin + 1)}

\* What json.Marshal gives for the empty object, {} , and for a string whose
\* bytes 8 to 11 are the WebP magic number, "1234567WEBPxxxxxxxxxxxxx" with
\* its quotes: 26 bytes, more than the sniffing table's minimum.
JSONContents ==
    {<<123, 125>>,
     <<34, 49, 50, 51, 52, 53, 54, 55>> \o webpHeader
        \o [i \in 1..(SniffMin - 11) |-> 120] \o <<34>>}

\* ------------------------------------------------------------ constructors
\* bufio.NewReader's buffer
BufioSize == 4096

NoHandle ==
    [kind |-> "none", via |-> "none", c |-> 0, pc |-> "none", size |-> 0,
     err |-> "nil", got |-> <<>>, readErr |-> "nil"]

Handles == 1..MaxHandles

\* lines 30-44: the Blob struct, with the opener its constructor closed over:
\* whether the reader it returns is seekable, the size and the error it
\* returns, and how often it was invoked.  newReader is "nil", "opener" (the
\* constructor's), "empty" (newEmptyReader) or "fanout" (the closure of lines
\* 179-182); newReadSeeker is "nil", "native" (lines 170-173) or "fanout"
\* (lines 187-190); peekReader is "nil", "native" or "fanout".  override is
\* the argument of the last SetContentType, "none" before any.
Blob(ctor, err, fanout, blobType, newReader, seekable, openSize, openErr, grain) ==
    [ctor |-> ctor, grain |-> grain, mayFail |-> FALSE,
     newReader |-> newReader, newReadSeeker |-> "nil", peekReader |-> "nil",
     fanout |-> fanout, once |-> "new", inits |-> 0, onceReader |-> FALSE,
     buf |-> <<>>, err |-> err, size |-> 0,
     blobType |-> blobType, contentType |-> "", override |-> "none",
     seekable |-> seekable, openSize |-> openSize, openErr |-> openErr,
     opens |-> 0, sets |-> 0,
     peeked |-> <<>>, peekErr |-> "nil", fill |-> "idle",
     h |-> [i \in Handles |-> NoHandle], calls |-> 0]

\* lines 46-51
NewBlob(seekable, openSize, openErr, grain) ==
    Blob("NewBlob", "nil", TRUE, "Unknown", "opener", seekable, openSize, openErr, grain)

\* lines 53-77: err is the error of os.Stat or of a check
NewBlobFromFile(err, size, grain) ==
    Blob("NewBlobFromFile", err, TRUE, "Unknown", "opener", TRUE, size, err, grain)

\* lines 79-91: err is the error of json.Marshal
NewBlobFromJsonMarshal(err, size) ==
    Blob("NewBlobFromJsonMarshal", err, FALSE, "JSON", "opener", TRUE, size, err, PeekLen)

\* lines 93-102
NewBlobFromBytes(size) ==
    Blob("NewBlobFromBytes", "nil", FALSE, "Unknown", "opener", TRUE, size, "nil", PeekLen)

\* Mutant: the empty Blob carries an opener, over nothing.
NewEmptyBlob_withOpener ==
    Blob("NewEmptyBlob", "nil", FALSE, "Unknown", "opener", FALSE, 0, "nil", PeekLen)

\* lines 104-106
NewEmptyBlob ==
    Blob("NewEmptyBlob", "nil", FALSE, "Unknown", "nil", FALSE, 0, "nil", PeekLen)

\* Mutant: Blob.init wires the fan-out for an unknown size (0) too.
useFanout_unknownSize(fanout, size, err) ==
    fanout /\ size < maxMemorySize /\ err = "nil"

\* line 175: whether Blob.init wires the fan-out
useFanout(fanout, size, err) ==
    fanout /\ size > 0 /\ size < maxMemorySize /\ err = "nil"

\* The grains a stream of the given content may have: it hands its bytes out
\* in one read, or it splits them.
Grains(content, fanout, size) ==
    IF useFanout(fanout, size, "nil") /\ Len(content) > 1
    THEN {PeekLen, Min(ReadGrain, Len(content) - 1)}
    ELSE {PeekLen}

\* The Blobs a caller may build over a content.
BlobsOver(content) ==
    {NewBlobFromBytes(Len(content))}
    \cup {NewBlobFromFile("nil", Len(content), g) :
             g \in Grains(content, TRUE, Len(content))}
    \cup {NewBlob(s, Len(content), "nil", g) :
             s \in BOOLEAN, g \in Grains(content, TRUE, Len(content))}
    \cup {NewBlob(s, sz, "nil", PeekLen) : s \in BOOLEAN, sz \in {0, maxMemorySize}}

\* The Blobs a caller may build over nothing, or that latch an error.
BlobsOverNothing ==
    {NewEmptyBlob,
     NewBlobFromFile("ErrNotFound", 0, PeekLen),
     NewBlobFromFile("ErrCheck", 0, PeekLen),
     NewBlobFromJsonMarshal("ErrMarshal", 0),
     NewBlob(FALSE, 0, "ErrOpen", PeekLen)}

InitBlob ==
    /\ \/ /\ source \in Contents
          /\ blob \in BlobsOver(source)
       \/ /\ source = <<>>
          /\ blob \in BlobsOverNothing
       \/ /\ source \in JSONContents
          /\ blob = NewBlobFromJsonMarshal("nil", Len(source))
    /\ ctx = NoCtx
    /\ app = NoApp
    /\ declared = Len(source)
    /\ srcPos = 0
    /\ srcClosed = 0
    /\ f = New(0)
    /\ prod = IdleProd
    /\ r = [c \in Consumers |-> NoReader]
    /\ call = [c \in Consumers |-> IdleCall]
    /\ out = [c \in Consumers |-> <<>>]
    /\ ret = [c \in Consumers |-> NoRet]
    /\ closer = [c \in Consumers |-> [called |-> FALSE, mid |-> 0, returned |-> FALSE]]
    /\ panic = "none"
    /\ starts = 0
    /\ readCalled = FALSE

\* -------------------------------------------------------------- Blob.init
\* Whether the opener returns a reader: NewBlobFromJsonMarshal's does even
\* with an error (line 88), the others return nil with their error.
openerReader(b) == b.openErr = "nil" \/ b.ctor = "NewBlobFromJsonMarshal"

\* Mutant: a zero-length prefix does not make the Blob Empty.
sniffed_noEmpty(b, buf, err) ==
    [b EXCEPT !.buf = buf, !.blobType = sniffBlobType(b.blobType, buf),
              !.contentType = sniffContentType(@, sniffBlobType(b.blobType, buf), buf),
              !.once = "done"]

\* lines 199-249: the blob type and the content type from the peeked prefix
\* buf and the error of Peek
sniffed(b, buf, err) ==
    LET empty == IF Len(buf) = 0 THEN "Empty" ELSE b.blobType
        bt == sniffBlobType(empty, buf)
    IN IF err \notin {"nil", "EOF"}
       THEN [b EXCEPT !.buf = buf, !.blobType = empty,
                      !.err = IF @ = "nil" THEN err ELSE @, !.once = "done"]
       ELSE [b EXCEPT !.buf = buf, !.blobType = bt,
                      !.contentType = sniffContentType(@, bt, buf),
                      !.once = "done"]

\* Mutant: the consumer starts at the cursor without the bytes buffered so far.
frMint_noReplay(size, current, buf) ==
    [NoReader EXCEPT !.made = TRUE, !.cap = chanCap(size), !.current = current]

\* The consumer the factory of line 247 mints, as Fanout.NewReader does.
frMint(size, current, buf) ==
    [NoReader EXCEPT !.made = TRUE, !.cap = chanCap(size), !.current = current,
                     !.bufReader = bytesNewReader(Take(buf, current))]

\* Mutant: init without the sync.Once runs on every call.
blobOnceDo_everyCall == blob.once # "peek"

\* line 150: whether this call of init is the one that runs the function
blobOnceDo == blob.once = "new"

\* lines 149-198: the first call of init, by whichever method.  Every other
\* caller waits in once.Do until it is over.  Over a native reader the Peek is
\* part of the step; over the fan-out it reads consumer 1 while the producer
\* runs, and the steps below follow it.
blob_init ==
    /\ panic = "none"
    /\ blob.ctor # "none"
    /\ blobOnceDo
    /\ LET b0 == [blob EXCEPT !.inits = @ + 1]
           b1 == [b0 EXCEPT !.opens = @ + 1,
                            !.err = IF b0.openErr # "nil" THEN b0.openErr ELSE @]
           b2 == [b1 EXCEPT !.size = b1.openSize,
                            !.newReadSeeker = IF b1.seekable THEN "native" ELSE @]
           bufd == Take(source, BufioSize)
       IN IF b0.err # "nil"
          THEN /\ blob' = [b0 EXCEPT !.once = "done"]
               /\ UNCHANGED <<f, r>>
          ELSE IF b0.newReader = "nil"
          THEN /\ blob' = [b0 EXCEPT !.blobType = "Empty", !.newReader = "empty",
                                     !.once = "done"]
               /\ UNCHANGED <<f, r>>
          ELSE IF ~openerReader(b1)
          THEN /\ blob' = [b1 EXCEPT !.once = "done"]
               /\ UNCHANGED <<f, r>>
          ELSE IF useFanout(b2.fanout, b2.openSize, b2.openErr)
          THEN /\ blob' = [b2 EXCEPT
                              !.newReader = "fanout",
                              !.newReadSeeker = IF @ = "nil" THEN "fanout" ELSE @,
                              !.peekReader = "fanout",
                              !.peeked = <<>>, !.peekErr = "nil", !.fill = "idle",
                              !.once = "peek"]
               /\ f' = [New(b2.openSize) EXCEPT !.readers = <<1>>]
               /\ r' = [r EXCEPT ![1] = frMint(b2.openSize, 0, <<>>)]
          ELSE /\ blob' = sniffed([b2 EXCEPT !.peekReader = "native",
                                             !.peeked = bufd,
                                             !.peekErr = IF Len(bufd) < PeekLen
                                                         THEN "EOF" ELSE "nil"],
                                  Take(bufd, PeekLen),
                                  IF Len(bufd) < PeekLen THEN "EOF" ELSE "nil")
               /\ UNCHANGED <<f, r>>
    /\ UNCHANGED <<source, declared, srcPos, srcClosed, prod, call, out, ret,
                   closer, panic, starts, readCalled, ctx, app>>

\* The bytes the last Read call on consumer c returned.
lastRead(c) == SubSeq(out[c], Len(out[c]) - ret[c].n + 1, Len(out[c]))

\* Mutant: Peek returns after the first read that brought bytes, however few.
blob_peek_oneFill ==
    /\ panic = "none"
    /\ blob.once = "peek"
    /\ blob.fill = "idle"
    /\ IF Len(blob.peeked) = 0 /\ blob.peekErr = "nil"
       THEN blob' = [blob EXCEPT !.fill = "call"]
       ELSE blob' = sniffed(blob, Take(blob.peeked, PeekLen),
                            IF Len(blob.peeked) < PeekLen THEN blob.peekErr
                            ELSE "nil")
    /\ UNCHANGED <<source, declared, srcPos, srcClosed, f, prod, r, call, out,
                   ret, closer, panic, starts, readCalled, ctx, app>>

\* line 198, over the fan-out: the loop of bufio's Peek.  While fewer than
\* PeekLen bytes are buffered and no read failed it fills; else Peek returns
\* and init goes on to line 199.
blob_peek ==
    /\ panic = "none"
    /\ blob.once = "peek"
    /\ blob.fill = "idle"
    /\ IF Len(blob.peeked) < PeekLen /\ blob.peekErr = "nil"
       THEN blob' = [blob EXCEPT !.fill = "call"]
       ELSE blob' = sniffed(blob, Take(blob.peeked, PeekLen),
                            IF Len(blob.peeked) < PeekLen THEN blob.peekErr
                            ELSE "nil")
    /\ UNCHANGED <<source, declared, srcPos, srcClosed, f, prod, r, call, out,
                   ret, closer, panic, starts, readCalled, ctx, app>>

\* bufio's fill: rd.Read(buf[w:]) on consumer 1
blob_peek_call ==
    /\ blob.once = "peek"
    /\ blob.fill = "call"
    /\ ret[1] = NoRet
    /\ fr_reader_call(1, BufioSize - Len(blob.peeked))

\* bufio's fill: the read has returned; its bytes and its error are kept
blob_peek_got ==
    /\ panic = "none"
    /\ blob.once = "peek"
    /\ blob.fill = "call"
    /\ call[1].pc = "idle"
    /\ ret[1].op = "Read"
    /\ blob' = [blob EXCEPT !.fill = "idle",
                            !.peeked = @ \o lastRead(1),
                            !.peekErr = ret[1].e]
    /\ ret' = [ret EXCEPT ![1] = NoRet]
    /\ UNCHANGED <<source, declared, srcPos, srcClosed, f, prod, r, call, out,
                   closer, panic, starts, readCalled, ctx, app>>

\* ---------------------------------------------------------------- queries
\* lines 253-289 and 337-340, on a Blob whose init is over
IsEmpty(b) == b.blobType = "Empty"
SupportsAnimation(b) == b.blobType = "GIF" \/ b.blobType = "WEBP"
BlobType(b) == b.blobType
Sniff(b) == b.buf
Size(b) == b.size
ContentType(b) == b.contentType
Err(b) == b.err

\* ------------------------------------------------- readers and read-seekers
\* What a reader request handed out: the method (kind), what serves it (via:
\* "peek-native" and "peek-fanout" the peekReader, "native" a fresh reader of
\* the opener, "empty" newEmptyReader's, "fanout" a fan-out consumer, "nil" no
\* reader), the fan-out consumer c, the size and the error returned, and the
\* bytes got from it with the error that ended the reading.
Handle(kind, via, c, pc, size, err) ==
    [NoHandle EXCEPT !.kind = kind, !.via = via, !.c = c, !.pc = pc,
                     !.size = size, !.err = err]

\* lines 248-257: the factory mints consumer c
mintConsumer(c) ==
    /\ c \in Consumers
    /\ c = Len(f.readers) + 1
    /\ f.lock = "free"
    /\ r' = [r EXCEPT ![c] = frMint(f.size, f.current, f.buf)]
    /\ f' = [f EXCEPT !.readers = Append(@, c)]

\* The closure variables after a request that left handle h: a fan-out handle
\* has minted its consumer.
minted(h) ==
    IF h.via = "fanout" THEN mintConsumer(h.c) ELSE UNCHANGED <<f, r>>

\* Mutant: b.newReader stays the opener after the fan-out is wired.
callNewReader_opener(b, kind, i) ==
    [b EXCEPT !.opens = @ + 1,
              !.h[i] = Handle(kind, "native", 0, "open", b.openSize, b.openErr)]

\* b.newReader() of line 304, for request i of the given kind: the Blob after
\* the opener was called again, or newEmptyReader, or the closure of lines
\* 179-182
callNewReader(b, kind, i) ==
    CASE b.newReader = "opener" ->
           [b EXCEPT !.opens = @ + 1,
                     !.h[i] = IF openerReader(b)
                              THEN Handle(kind, "native", 0, "open",
                                          b.openSize, b.openErr)
                              ELSE Handle(kind, "nil", 0, "done", 0, b.openErr)]
      [] b.newReader = "empty" ->
           [b EXCEPT !.h[i] = Handle(kind, "empty", 0, "open", 0, "nil")]
      [] b.newReader = "fanout" ->
           [b EXCEPT !.h[i] = Handle(kind, "fanout", Len(f.readers) + 1,
                                     "open", b.size, "nil")]

\* Mutant: NewReader without the sync.Once, and the peekReader is not cleared.
requestReader_sharesPeek(kind, i) ==
    LET b1 == [blob EXCEPT !.onceReader = TRUE, !.calls = i]
    IN IF blob.peekReader # "nil"
       THEN [b1 EXCEPT !.h[i] = Handle(kind,
                                       IF blob.peekReader = "fanout"
                                       THEN "peek-fanout" ELSE "peek-native",
                                       IF blob.peekReader = "fanout" THEN 1 ELSE 0,
                                       "open", blob.size, blob.err)]
       ELSE IF blob.err # "nil"
       THEN [b1 EXCEPT !.h[i] = Handle(kind, "nil", 0, "done", 0, blob.err)]
       ELSE callNewReader(b1, kind, i)

\* lines 291-307 for request i of the given kind (NewReader itself, or the
\* NewReader that ReadAll calls): the Blob after it
requestReader(kind, i) ==
    LET first == ~blob.onceReader
        err == IF first THEN blob.err ELSE "nil"
        b1 == [blob EXCEPT !.onceReader = TRUE, !.calls = i,
                           !.peekReader = IF first THEN "nil" ELSE @]
    IN IF first /\ blob.peekReader # "nil"
       THEN [b1 EXCEPT !.h[i] = Handle(kind,
                                       IF blob.peekReader = "fanout"
                                       THEN "peek-fanout" ELSE "peek-native",
                                       IF blob.peekReader = "fanout" THEN 1 ELSE 0,
                                       "open", blob.size, err)]
       ELSE IF err # "nil"
       THEN [b1 EXCEPT !.h[i] = Handle(kind, "nil", 0, "done", 0, err)]
       ELSE callNewReader(b1, kind, i)

\* Blob.NewReader, lines 291-307
blob_NewReader(i) ==
    /\ panic = "none"
    /\ blob.ctor # "none"
    /\ blob.once = "done"
    /\ i \in Handles
    /\ i = blob.calls + 1
    /\ blob' = requestReader("NewReader", i)
    /\ minted(requestReader("NewReader", i).h[i])
    /\ UNCHANGED <<source, declared, srcPos, srcClosed, prod, call, out, ret,
                   closer, panic, starts, readCalled, ctx, app>>

\* lines 312-315: the Blob after request i went through b.newReadSeeker, the
\* closure of lines 170-173 or of lines 187-190
requestReadSeeker(i) ==
    LET b1 == [blob EXCEPT !.calls = i] IN
    CASE blob.newReadSeeker = "nil" ->
           [b1 EXCEPT !.h[i] = Handle("NewReadSeeker", "nil", 0, "done",
                                      blob.size, "ErrMethodNotAllowed")]
      [] blob.newReadSeeker = "native" ->
           [b1 EXCEPT !.opens = @ + 1,
                      !.h[i] = Handle("NewReadSeeker", "native", 0, "open",
                                      blob.openSize, blob.openErr)]
      [] blob.newReadSeeker = "fanout" ->
           [b1 EXCEPT !.h[i] = Handle("NewReadSeeker", "fanout",
                                      Len(f.readers) + 1, "open", blob.size, "nil")]

\* Blob.NewReadSeeker, lines 310-316
blob_NewReadSeeker(i) ==
    /\ panic = "none"
    /\ blob.ctor # "none"
    /\ blob.once = "done"
    /\ i \in Handles
    /\ i = blob.calls + 1
    /\ blob' = requestReadSeeker(i)
    /\ minted(requestReadSeeker(i).h[i])
    /\ UNCHANGED <<source, declared, srcPos, srcClosed, prod, call, out, ret,
                   closer, panic, starts, readCalled, ctx, app>>

\* Whether the reader behind a handle hands out its bytes without the fan-out
\* producer: a reader of the opener's, the empty reader, or the peekReader
\* once its Peek has buffered everything up to the error that ended it.
direct(h) ==
    \/ h.via \in {"native", "empty", "peek-native"}
    \/ h.via = "peek-fanout" /\ blob.peekErr # "nil"

\* Mutant: the sniff consumed the prefix it peeked from the opener's reader.
drained_peekConsumed(h) ==
    CASE h.via = "empty" -> [h EXCEPT !.got = <<>>, !.readErr = "EOF"]
      [] h.via = "peek-fanout" -> [h EXCEPT !.got = blob.peeked,
                                            !.readErr = blob.peekErr]
      [] h.via = "peek-native" -> [h EXCEPT !.got = Drop(source, PeekLen),
                                            !.readErr = "EOF"]
      [] OTHER -> [h EXCEPT !.got = source, !.readErr = "EOF"]

\* Such a reader read until it returns an error: the bytes, the error.
drained(h) ==
    CASE h.via = "empty" -> [h EXCEPT !.got = <<>>, !.readErr = "EOF"]
      [] h.via = "peek-fanout" -> [h EXCEPT !.got = blob.peeked,
                                            !.readErr = blob.peekErr]
      [] OTHER -> [h EXCEPT !.got = source, !.readErr = "EOF"]

\* lines 328-332: what ReadAll returns after io.ReadAll, which takes EOF for
\* the end and not for an error
readAllErr(h) ==
    IF h.err # "nil" THEN h.err
    ELSE IF h.readErr = "EOF" THEN "nil" ELSE h.readErr

\* lines 323-334: ReadAll with the handle its NewReader returned.  Over a
\* direct reader whose Close is a no-op it is over; else its reads and its
\* deferred Close are the steps below.
readAllOver(h) ==
    IF h.via = "nil" THEN h
    ELSE IF direct(h) /\ h.via # "peek-fanout"
    THEN [drained(h) EXCEPT !.pc = "done", !.err = readAllErr(drained(h))]
    ELSE IF direct(h)
    THEN [drained(h) EXCEPT !.pc = "closing"]
    ELSE h

\* Blob.ReadAll, lines 318-335
blob_ReadAll(i) ==
    /\ panic = "none"
    /\ blob.ctor # "none"
    /\ blob.once = "done"
    /\ i \in Handles
    /\ i = blob.calls + 1
    /\ IF blob.blobType = "Empty"
       THEN /\ blob' = [blob EXCEPT !.calls = i,
                                    !.h[i] = Handle("ReadAll", "nil", 0, "done", 0,
                                                    blob.err)]
            /\ UNCHANGED <<f, r>>
       ELSE /\ blob' = [requestReader("ReadAll", i) EXCEPT !.h[i] = readAllOver(@)]
            /\ minted(requestReader("ReadAll", i).h[i])
    /\ UNCHANGED <<source, declared, srcPos, srcClosed, prod, call, out, ret,
                   closer, panic, starts, readCalled, ctx, app>>

\* The caller of NewReader or NewReadSeeker reads a direct reader to its end.
blob_read_direct(i) ==
    /\ panic = "none"
    /\ i \in Handles
    /\ blob.h[i].pc = "open"
    /\ blob.h[i].kind # "ReadAll"
    /\ direct(blob.h[i])
    /\ blob' = [blob EXCEPT !.h[i] = [drained(@) EXCEPT !.pc = "done"]]
    /\ UNCHANGED <<source, declared, srcPos, srcClosed, f, prod, r, call, out,
                   ret, closer, panic, starts, readCalled, ctx, app>>

\* One Read on the fan-out consumer behind handle i, by io.ReadAll (line 328)
\* or by a caller that reads to the end as io.ReadAll does
\* into the free space of a buffer that starts with ReadAllLen bytes and grows
\* when it is full: here always up to the next multiple of ReadAllLen.
blob_read_call(i) ==
    /\ i \in Handles
    /\ blob.h[i].pc = "open"
    /\ ~direct(blob.h[i])
    /\ ret[blob.h[i].c] = NoRet
    /\ fr_reader_call(blob.h[i].c, ReadAllLen - (Len(blob.h[i].got) % ReadAllLen))

\* That Read has returned: its bytes are appended, and an error ends the
\* reading
blob_read_got(i) ==
    /\ panic = "none"
    /\ i \in Handles
    /\ blob.h[i].pc = "open"
    /\ ~direct(blob.h[i])
    /\ LET c == blob.h[i].c IN
         /\ call[c].pc = "idle"
         /\ ret[c].op = "Read"
         /\ blob' = [blob EXCEPT
                       !.h[i].got = @ \o lastRead(c),
                       !.h[i].readErr = ret[c].e,
                       !.h[i].pc = IF ret[c].e = "nil" THEN "open"
                                   ELSE IF blob.h[i].kind = "ReadAll" THEN "closing"
                                   ELSE "done"]
         /\ ret' = [ret EXCEPT ![c] = NoRet]
    /\ UNCHANGED <<source, declared, srcPos, srcClosed, f, prod, r, call, out,
                   closer, panic, starts, readCalled, ctx, app>>

\* lines 325-327: the deferred reader.Close() of ReadAll, its exclusive section
blob_close_lock(i) ==
    /\ i \in Handles
    /\ blob.h[i].pc = "closing"
    /\ ~closer[blob.h[i].c].called
    /\ fr_closer_lock(blob.h[i].c)

\* that Close: close(ch)
blob_close_chan(i) ==
    /\ i \in Handles
    /\ blob.h[i].pc = "closing"
    /\ fr_closer_chan(blob.h[i].c)

\* lines 329-332: ReadAll returns
blob_ReadAll_return(i) ==
    /\ panic = "none"
    /\ i \in Handles
    /\ blob.h[i].pc = "closing"
    /\ closer[blob.h[i].c].returned
    /\ blob' = [blob EXCEPT !.h[i].pc = "done", !.h[i].err = readAllErr(blob.h[i])]
    /\ UNCHANGED <<source, declared, srcPos, srcClosed, f, prod, r, call, out,
                   ret, closer, panic, starts, readCalled, ctx, app>>

NextBlob ==
    \/ blob_init
    \/ blob_peek
    \/ blob_peek_call
    \/ blob_peek_got
    \/ \E i \in Handles : blob_NewReader(i)
    \/ \E i \in Handles : blob_NewReadSeeker(i)
    \/ \E i \in Handles : blob_ReadAll(i)
    \/ \E i \in Handles : blob_read_direct(i)
    \/ \E i \in Handles : blob_read_call(i)
    \/ \E i \in Handles : blob_read_got(i)
    \/ \E i \in Handles : blob_close_lock(i)
    \/ \E i \in Handles : blob_close_chan(i)
    \/ \E i \in Handles : blob_ReadAll_return(i)
    \/ \E c \in Consumers : fr_reader_sample(c)
    \/ \E c \in Consumers : fr_reader_loop(c)
    \/ \E c \in Consumers : fr_reader_closeLock(c)
    \/ \E c \in Consumers : fr_reader_closeChan(c)
    \/ fr_init_read
    \/ fr_init_rlock
    \/ fr_init_send
    \/ fr_init_runlock
    \/ fr_init_signal

SpecBlob == InitBlob /\ [][NextBlob]_vars

\* --------------------------------------------------- a longer content
\* SpecBlobLarge runs a fan-out memoized Blob over one content longer than
\* the sniff peeks, two full peeks and a byte, so that the sniff can be over
\* while the stream still has bytes to give.  No byte of it matches a magic
\* number.  Its stream hands it out in one read or in reads of one peek's
\* length.  The callers take readers and read-seekers and read them, but the
\* reader that holds the sniff's consumer, the peekReader that the first
\* NewReader returns, is neither read nor closed.
LargeContent == [i \in 1..(2 * PeekLen + 1) |-> (i % 200) + 1]

InitBlobLarge ==
    /\ source = LargeContent
    /\ blob \in {b \in BlobsOver(source) :
                   b.grain = PeekLen /\ useFanout(b.fanout, b.openSize, b.openErr)}
    /\ ctx = NoCtx
    /\ app = NoApp
    /\ declared = Len(source)
    /\ srcPos = 0
    /\ srcClosed = 0
    /\ f = New(0)
    /\ prod = IdleProd
    /\ r = [c \in Consumers |-> NoReader]
    /\ call = [c \in Consumers |-> IdleCall]
    /\ out = [c \in Consumers |-> <<>>]
    /\ ret = [c \in Consumers |-> NoRet]
    /\ closer = [c \in Consumers |-> [called |-> FALSE, mid |-> 0, returned |-> FALSE]]
    /\ panic = "none"
    /\ starts = 0
    /\ readCalled = FALSE

\* Handle i is not the peekReader.
NotPeekReader(i) == blob.h[i].via \notin {"peek-fanout", "peek-native"}

NextBlobLarge ==
    \/ blob_init
    \/ blob_peek
    \/ blob_peek_call
    \/ blob_peek_got
    \/ \E i \in Handles : blob_NewReader(i)
    \/ \E i \in Handles : blob_NewReadSeeker(i)
    \/ \E i \in Handles : NotPeekReader(i) /\ blob_read_direct(i)
    \/ \E i \in Handles : NotPeekReader(i) /\ blob_read_call(i)
    \/ \E i \in Handles : NotPeekReader(i) /\ blob_read_got(i)
    \/ \E c \in Consumers : fr_reader_sample(c)
    \/ \E c \in Consumers : fr_reader_loop(c)
    \/ \E c \in Consumers : fr_reader_closeLock(c)
    \/ \E c \in Consumers : fr_reader_closeChan(c)
    \/ fr_init_read
    \/ fr_init_rlock
    \/ fr_init_send
    \/ fr_init_runlock
    \/ fr_init_signal

SpecBlobLarge == InitBlobLarge /\ [][NextBlobLarge]_vars

\* ---------------------------------------------------------- SetContentType
MaxSets == 2           \* calls of SetContentType on one Blob

\* The content types a caller may set; the empty string is the zero value.
ContentTypes == {"foo/bar", ""}

\* lines 282-284: SetContentType does not call init and writes one field.  It
\* is called before the sniff or after it, not while init runs.
blob_SetContentType(x) ==
    /\ panic = "none"
    /\ blob.ctor # "none"
    /\ blob.once # "peek"
    /\ blob.sets < MaxSets
    /\ blob' = [blob EXCEPT !.contentType = x, !.override = x, !.sets = @ + 1]
    /\ UNCHANGED <<source, declared, srcPos, srcClosed, f, prod, r, call, out,
                   ret, closer, panic, starts, readCalled, ctx, app>>

NextBlobSet ==
    \/ NextBlob
    \/ \E x \in ContentTypes : blob_SetContentType(x)

SpecBlobSet == InitBlob /\ [][NextBlobSet]_vars

(***************************************************************************)
(* SpecContext models the request scope of src/context.go: WithContext     *)
(* gives a context an imagorContextRef and launches the watcher goroutine, *)
(* which waits for the context to be done and then runs Call; Defer        *)
(* appends to the ref's list under its mutex; the cache is a sync.Map,     *)
(* whose Store and Load are atomic.  A deferred function is opaque: its    *)
(* invocation is recorded.                                                 *)
(***************************************************************************)

\* ---------------------------------------------------------------- bounds
NumScopes == 2         \* contexts made by WithContext
MaxDefers == 3         \* calls of Defer, over all contexts
MaxCalls == 1          \* triggers of Call on one ref beside the watcher's
MaxPuts == 2           \* calls of ContextCachePut, over all contexts

Scopes == 1..NumScopes

\* A context that WithContext did not make: it carries no imagorContextRef.
Plain == 0

Contexts == Scopes \cup {Plain}

\* Cache keys and values are opaque.
Keys == {"k1", "k2"}
Vals == {"v1", "v2"}

\* The goroutines that run Call on a ref: the watcher of lines 36-39, and one
\* that triggers the finalization again after the context is done.
Callers == {"watcher", "again"}

\* lines 11-15 and 34: a new imagorContextRef; a key the sync.Map does not hold
\* is "absent"
Ref == [funcs |-> <<>>, l |-> "free", Cache |-> [k \in Keys |-> "absent"]]

\* No ContextCacheGet has returned yet.
NoGet == [c |-> Plain, key |-> "none", val |-> "nil", ok |-> FALSE, at |-> 0]

\* lines 33-41, for every scope: the ref, the context not yet done, the watcher
\* launched and waiting.  registered, early and invoked record the functions
\* passed to Defer, those passed before the context was done, and the
\* invocations, in order; deferOn is the context of the last Defer call (-1: none); puts
\* records the ContextCachePut calls in order.
InitContext ==
    /\ ctx = [made |-> TRUE,
              ref |-> [s \in Scopes |-> Ref],
              done |-> [s \in Scopes |-> FALSE],
              caller |-> [s \in Scopes |->
                            [p \in Callers |->
                               [pc |-> IF p = "watcher" THEN "wait" ELSE "idle",
                                list |-> <<>>, i |-> 0]]],
              calls |-> [s \in Scopes |-> 0],
              registered |-> [s \in Scopes |-> <<>>],
              early |-> [s \in Scopes |-> <<>>],
              invoked |-> [s \in Scopes |-> <<>>],
              defers |-> 0,
              deferOn |-> -1,
              puts |-> <<>>,
              got |-> NoGet,
              panic |-> "none"]
    /\ app = NoApp
    /\ blob = NoBlob
    /\ source = <<>>
    /\ declared = 0
    /\ srcPos = 0
    /\ srcClosed = 0
    /\ f = New(0)
    /\ prod = IdleProd
    /\ r = [c \in Consumers |-> NoReader]
    /\ call = [c \in Consumers |-> IdleCall]
    /\ out = [c \in Consumers |-> <<>>]
    /\ ret = [c \in Consumers |-> NoRet]
    /\ closer = [c \in Consumers |-> [called |-> FALSE, mid |-> 0, returned |-> FALSE]]
    /\ panic = "none"
    /\ starts = 0
    /\ readCalled = FALSE

\* What a step of the request scope leaves alone.
ctxFrame ==
    UNCHANGED <<source, declared, srcPos, srcClosed, f, prod, r, call, out, ret,
                closer, panic, starts, readCalled, blob, app>>

\* lines 44, 57 and 64: whether ctx.Value gives a non-nil *imagorContextRef
hasRef(c) == c \in Scopes

\* The context of scope s is done: cancelled, timed out or completed.
ctx_done(s) ==
    /\ ctx.panic = "none"
    /\ ~ctx.done[s]
    /\ ctx' = [ctx EXCEPT !.done[s] = TRUE, !.early[s] = ctx.registered[s]]
    /\ ctxFrame

\* lines 36-38: the watcher receives from ctx.Done() and goes on to r.Call()
ctx_watch(s) ==
    /\ ctx.panic = "none"
    /\ ctx.caller[s]["watcher"].pc = "wait"
    /\ ctx.done[s]
    /\ ctx' = [ctx EXCEPT !.caller[s]["watcher"].pc = "call"]
    /\ ctxFrame

\* The finalization of a done context is triggered once more: r.Call() again.
ctx_call_again(s) ==
    /\ ctx.panic = "none"
    /\ ctx.done[s]
    /\ ctx.caller[s]["again"].pc = "idle"
    /\ ctx.calls[s] < MaxCalls
    /\ ctx' = [ctx EXCEPT !.caller[s]["again"].pc = "call", !.calls[s] = @ + 1]
    /\ ctxFrame

\* lines 24-25: Call takes the mutex and evaluates the range expression
ctx_call_lock(s, p) ==
    /\ ctx.panic = "none"
    /\ ctx.caller[s][p].pc = "call"
    /\ ctx.ref[s].l = "free"
    /\ ctx' = [ctx EXCEPT !.ref[s].l = p,
                          !.caller[s][p] = [pc |-> "range", i |-> 1,
                                            list |-> ctx.ref[s].funcs]]
    /\ ctxFrame

\* lines 25-27: one iteration, fn()
ctx_call_fn(s, p) ==
    /\ ctx.panic = "none"
    /\ ctx.caller[s][p].pc = "range"
    /\ ctx.caller[s][p].i <= Len(ctx.caller[s][p].list)
    /\ ctx' = [ctx EXCEPT
                 !.invoked[s] = Append(@, ctx.caller[s][p].list[ctx.caller[s][p].i]),
                 !.caller[s][p].i = @ + 1]
    /\ ctxFrame

\* Mutant: Call leaves the list as it is.
ctx_call_end_keepsFuncs(s, p) ==
    /\ ctx.panic = "none"
    /\ ctx.caller[s][p].pc = "range"
    /\ ctx.caller[s][p].i > Len(ctx.caller[s][p].list)
    /\ ctx' = [ctx EXCEPT
                 !.ref[s].l = "free",
                 !.caller[s][p] = [pc |-> IF p = "watcher" THEN "done" ELSE "idle",
                                   list |-> <<>>, i |-> 0]]
    /\ ctxFrame

\* lines 28-29: after the loop Call empties the list and releases the mutex
ctx_call_end(s, p) ==
    /\ ctx.panic = "none"
    /\ ctx.caller[s][p].pc = "range"
    /\ ctx.caller[s][p].i > Len(ctx.caller[s][p].list)
    /\ ctx' = [ctx EXCEPT
                 !.ref[s].funcs = <<>>,
                 !.ref[s].l = "free",
                 !.caller[s][p] = [pc |-> IF p = "watcher" THEN "done" ELSE "idle",
                                   list |-> <<>>, i |-> 0]]
    /\ ctxFrame

\* lines 43-48: mustContextValue panics when the context carries no ref
mustContextValue(c) == IF hasRef(c) THEN "none" ELSE "not imagor context"

\* lines 51-53 and 17-21: Defer(ctx, fn) with the next function.  The three
\* statements under the mutex are one step, taken when the mutex is free.
ctx_Defer(c) ==
    /\ ctx.panic = "none"
    /\ ctx.defers < MaxDefers
    /\ LET fn == ctx.defers + 1 IN
       IF mustContextValue(c) # "none"
       THEN ctx' = [ctx EXCEPT !.defers = fn, !.deferOn = c,
                               !.panic = mustContextValue(c)]
       ELSE /\ ctx.ref[c].l = "free"
            /\ ctx' = [ctx EXCEPT !.defers = fn, !.deferOn = c,
                                  !.ref[c].funcs = Append(@, fn),
                                  !.registered[c] = Append(@, fn)]
    /\ ctxFrame

\* Mutant: one map serves every context.
cacheStore_shared(ref, c, key, val) ==
    [s \in Scopes |-> [ref[s] EXCEPT !.Cache[key] = val]]

\* lines 57-59: the refs after ContextCachePut(c, key, val)
cacheStore(ref, c, key, val) ==
    IF hasRef(c) THEN [ref EXCEPT ![c].Cache[key] = val] ELSE ref

\* lines 64-67: what ContextCacheGet(c, key) returns
cacheLoad(ref, c, key) ==
    IF hasRef(c) /\ ref[c].Cache[key] # "absent"
    THEN [val |-> ref[c].Cache[key], ok |-> TRUE]
    ELSE [val |-> "nil", ok |-> FALSE]

\* lines 56-60
ctx_CachePut(c, key, val) ==
    /\ ctx.panic = "none"
    /\ Len(ctx.puts) < MaxPuts
    /\ ctx' = [ctx EXCEPT !.ref = cacheStore(@, c, key, val),
                          !.puts = Append(@, <<c, key, val>>)]
    /\ ctxFrame

\* lines 63-68: the result is recorded with the number of puts made so far
ctx_CacheGet(c, key) ==
    /\ ctx.panic = "none"
    /\ ctx' = [ctx EXCEPT !.got = [c |-> c, key |-> key,
                                   val |-> cacheLoad(ctx.ref, c, key).val,
                                   ok |-> cacheLoad(ctx.ref, c, key).ok,
                                   at |-> Len(ctx.puts)]]
    /\ ctxFrame

NextContext ==
    \/ \E s \in Scopes : ctx_done(s)
    \/ \E s \in Scopes : ctx_watch(s)
    \/ \E s \in Scopes : ctx_call_again(s)
    \/ \E s \in Scopes, p \in Callers : ctx_call_lock(s, p)
    \/ \E s \in Scopes, p \in Callers : ctx_call_fn(s, p)
    \/ \E s \in Scopes, p \in Callers : ctx_call_end(s, p)
    \/ \E c \in Contexts : ctx_Defer(c)

SpecContext == InitContext /\ [][NextContext]_vars

\* The cache shares no state with the deferred list and its mutex: the cache
\* operations are checked on their own, with Defer for what it does on a
\* context without ref.
NextContextCache ==
    \/ \E c \in Contexts, key \in Keys, val \in Vals : ctx_CachePut(c, key, val)
    \/ \E c \in Contexts, key \in Keys : ctx_CacheGet(c, key)
    \/ \E c \in Contexts : ctx_Defer(c)

SpecContextCache == InitContext /\ [][NextContextCache]_vars

\* ------------------------------------------- deferred functions that defer
\* SpecDeferring runs the same request scopes with deferred functions that
\* are not opaque: a function is a record of its identity and of the scope
\* on which it calls Defer itself when it is run (NoDefer: on none).  The
\* function it passes to that Defer does nothing, and has the negated
\* identity.

NoDefer == -1

\* lines 51-53 and 17-21: Defer(ctx, fn) by a goroutine of the request, with a
\* function that defers on scope t; one step, taken when the mutex is free
ctx_DeferFn(c, t) ==
    /\ ctx.panic = "none"
    /\ ctx.defers < MaxDefers
    /\ c \in Scopes
    /\ ctx.ref[c].l = "free"
    /\ LET fn == [id |-> ctx.defers + 1, on |-> t] IN
         ctx' = [ctx EXCEPT !.defers = fn.id, !.deferOn = c,
                            !.ref[c].funcs = Append(@, fn),
                            !.registered[c] = Append(@, fn)]
    /\ ctxFrame

\* lines 25-26: Call, holding the mutex, invokes the next function of the
\* list; a function that defers is now inside its body, another has returned
ctx_fn_enter(s, p) ==
    /\ ctx.panic = "none"
    /\ ctx.caller[s][p].pc = "range"
    /\ ctx.caller[s][p].i <= Len(ctx.caller[s][p].list)
    /\ LET fn == ctx.caller[s][p].list[ctx.caller[s][p].i] IN
         ctx' = [ctx EXCEPT
                   !.invoked[s] = Append(@, fn),
                   !.caller[s][p].pc = IF fn.on = NoDefer THEN "range" ELSE "fn",
                   !.caller[s][p].i = IF fn.on = NoDefer THEN @ + 1 ELSE @]
    /\ ctxFrame

\* lines 17-21, called from inside the function that Call is running: Defer
\* takes the mutex of the scope the function defers on, appends and releases
\* it, and the function returns to the loop of Call
ctx_fn_Defer(s, p) ==
    /\ ctx.panic = "none"
    /\ ctx.caller[s][p].pc = "fn"
    /\ LET fn == ctx.caller[s][p].list[ctx.caller[s][p].i]
           inner == [id |-> 0 - fn.id, on |-> NoDefer]
       IN /\ ctx.ref[fn.on].l = "free"
          /\ ctx' = [ctx EXCEPT
                        !.ref[fn.on].funcs = Append(@, inner),
                        !.registered[fn.on] = Append(@, inner),
                        !.caller[s][p].pc = "range",
                        !.caller[s][p].i = @ + 1]
    /\ ctxFrame

NextDeferring ==
    \/ \E s \in Scopes : ctx_done(s)
    \/ \E s \in Scopes : ctx_watch(s)
    \/ \E s \in Scopes : ctx_call_again(s)
    \/ \E s \in Scopes, p \in Callers : ctx_call_lock(s, p)
    \/ \E s \in Scopes, p \in Callers : ctx_fn_enter(s, p)
    \/ \E s \in Scopes, p \in Callers : ctx_fn_Defer(s, p)
    \/ \E s \in Scopes, p \in Callers : ctx_call_end(s, p)
    \/ \E c \in Scopes, t \in Scopes \cup {NoDefer} : ctx_DeferFn(c, t)

\* The goroutines that run Call are scheduled: the watcher wakes up when the
\* context is done, a goroutine that waits for a free mutex gets it, and a
\* goroutine that can take its next step takes it.
FairDeferring ==
    \A s \in Scopes :
       /\ WF_vars(ctx_watch(s))
       /\ \A p \in Callers :
            /\ SF_vars(ctx_call_lock(s, p))
            /\ WF_vars(ctx_fn_enter(s, p))
            /\ SF_vars(ctx_fn_Defer(s, p))
            /\ WF_vars(ctx_call_end(s, p))

SpecDeferring == InitContext /\ [][NextDeferring]_vars /\ FairDeferring

(***************************************************************************)
(* SpecConfig models the startup function Do of the config package (its    *)
(* source is in src/config/config_test.go from line 279 on): the flags     *)
(* that configure the signer, the choice of the hash algorithm, and the    *)
(* server it returns.  The signer itself is not among the sources: a       *)
(* signature is modelled as the tuple of what the HMAC is computed from,   *)
(* and verification as the comparison the spec describes.                   *)
(***************************************************************************)

\* ---------------------------------------------------------------- bounds
NumSigned == 2         \* signed requests the built server verifies

\* Values of the flag -imagor-signer-type: the supported ones, one in upper
\* case, and two that name no supported algorithm.
SignerTypes == {"sha1", "sha256", "sha512", "SHA256", "md5", "sha384"}

\* Values of the flag -imagor-signer-truncate: the default and the one of
\* TestSignerAlgorithm.
SignerTruncates == {0, 32}

\* strings.ToLower, on the flag values above
ToLower(s) == IF s = "SHA256" THEN "sha256" ELSE s

\* The hash algorithms the signer supports (spec 4.D).
Supported == {"sha1", "sha256", "sha512"}

\* The algorithms a client may have signed its request with.
ClientAlgs == Supported \cup {"md5", "sha384"}

Signed == 1..NumSigned

\* Before Do: nothing is built, no request was served.
InitConfig ==
    /\ app = [built |-> "new", signerType |-> "", alg |-> "", truncate |-> 0,
              result |-> [q \in Signed |-> "none"],
              signedWith |-> [q \in Signed |-> "none"]]
    /\ ctx = NoCtx
    /\ blob = NoBlob
    /\ source = <<>>
    /\ declared = 0
    /\ srcPos = 0
    /\ srcClosed = 0
    /\ f = New(0)
    /\ prod = IdleProd
    /\ r = [c \in Consumers |-> NoReader]
    /\ call = [c \in Consumers |-> IdleCall]
    /\ out = [c \in Consumers |-> <<>>]
    /\ ret = [c \in Consumers |-> NoRet]
    /\ closer = [c \in Consumers |-> [called |-> FALSE, mid |-> 0, returned |-> FALSE]]
    /\ panic = "none"
    /\ starts = 0
    /\ readCalled = FALSE

\* What a step of the server leaves alone.
appFrame ==
    UNCHANGED <<source, declared, srcPos, srcClosed, f, prod, r, call, out, ret,
                closer, panic, starts, readCalled, blob, ctx>>

\* config_test.go lines 314 and 535-539: alg starts as sha1.New and is replaced
\* for sha256 and for sha512
signerAlg(signerType) ==
    IF ToLower(signerType) = "sha256" THEN "sha256"
    ELSE IF ToLower(signerType) = "sha512" THEN "sha512"
    ELSE "sha1"

\* Do, lines 305-742, with the flags that configure the signer: it returns the
\* server built around NewHMACSigner(alg, truncate, secret) (lines 711-713);
\* no value of the signer type makes it fail.
cfg_Do(signerType, truncate) ==
    /\ app.built = "new"
    /\ app' = [app EXCEPT !.built = "ok", !.signerType = signerType,
                          !.alg = signerAlg(signerType), !.truncate = truncate]
    /\ appFrame

\* Spec 4.D: the signature of a path, an HMAC of the path under the secret
\* with the given hash, truncated; two signatures are equal exactly when
\* hash, truncation and path are.
hmacSign(alg, truncate, path) == <<alg, truncate, path>>

\* Spec 4.D, verification: the built server recomputes the signature of the
\* request's path and compares; request q was signed by a client that used
\* clientAlg and the configured truncation.
cfg_verify(q, clientAlg) ==
    /\ app.built = "ok"
    /\ app.result[q] = "none"
    /\ app' = [app EXCEPT
                 !.signedWith[q] = clientAlg,
                 !.result[q] =
                     IF hmacSign(app.alg, app.truncate, "bar")
                            = hmacSign(clientAlg, app.truncate, "bar")
                     THEN "ok" ELSE "signature-mismatch"]
    /\ appFrame

NextConfig ==
    \/ \E t \in SignerTypes, n \in SignerTruncates : cfg_Do(t, n)
    \/ \E q \in Signed, a \in ClientAlgs : cfg_verify(q, a)

SpecConfig == InitConfig /\ [][NextConfig]_vars

(***************************************************************************)
(* SpecResultPath models the result path of spec 4.F for requests whose    *)
(* signature was verified: result-store lookup, in-flight dedup, the       *)
(* process-concurrency gate, load, process, result persist, completion.    *)
(* The orchestrator is not among the sources (the file that defines        *)
(* imagor.Imagor is absent; src/config/config_test.go only configures it), *)
(* so these definitions follow the spec, sections 4.F, 5 and 9.            *)
(***************************************************************************)

\* ---------------------------------------------------------------- bounds
NumArrivals == 3       \* requests the server receives
NumFingerprints == 3   \* distinct fingerprints among them

Arrivals == 1..NumArrivals
Fingerprints == 1..NumFingerprints

\* Values of process-concurrency: the default of
\* src/config/config_test.go:343-344, which disables the gate, and small sizes.
Concurrencies == {-1, 1, 2}

\* A request before it arrives.
NewRequest ==
    [pc |-> "new", fp |-> 0, on |-> 0, slot |-> FALSE, loads |-> 0,
     processes |-> 0, missed |-> FALSE, result |-> <<"none", 0>>]

\* The server after startup: the gate's size and whether a result store is
\* configured; nothing stored, nothing in flight, no slot taken.  inflight
\* maps a fingerprint to the request that registered it (0: none), pending
\* is the one-shot result of each registration.
InitResultPath ==
    /\ \E k \in Concurrencies, rs \in BOOLEAN :
         app = [built |-> "ok", processConcurrency |-> k, resultStore |-> rs,
                stored |-> [x \in Fingerprints |-> <<"none", 0>>],
                inflight |-> [x \in Fingerprints |-> 0],
                pending |-> [q \in Arrivals |-> <<"none", 0>>],
                sema |-> 0,
                req |-> [q \in Arrivals |-> NewRequest]]
    /\ ctx = NoCtx
    /\ blob = NoBlob
    /\ source = <<>>
    /\ declared = 0
    /\ srcPos = 0
    /\ srcClosed = 0
    /\ f = New(0)
    /\ prod = IdleProd
    /\ r = [c \in Consumers |-> NoReader]
    /\ call = [c \in Consumers |-> IdleCall]
    /\ out = [c \in Consumers |-> <<>>]
    /\ ret = [c \in Consumers |-> NoRet]
    /\ closer = [c \in Consumers |-> [called |-> FALSE, mid |-> 0, returned |-> FALSE]]
    /\ panic = "none"
    /\ starts = 0
    /\ readCalled = FALSE

\* 4.F step 3: request q arrives with fingerprint x and probes the result
\* store; a hit is returned, a miss goes on to the dedup
res_lookup(q, x) ==
    /\ app.built = "ok"
    /\ app.req[q].pc = "new"
    /\ app' = IF app.stored[x][1] # "none"
              THEN [app EXCEPT !.req[q].pc = "done", !.req[q].fp = x,
                               !.req[q].result = app.stored[x]]
              ELSE [app EXCEPT !.req[q].pc = "dedup", !.req[q].fp = x,
                               !.req[q].missed = TRUE]
    /\ appFrame

\* Mutant: every request that misses the result store does the work itself.
res_dedup_none(q) ==
    /\ app.req[q].pc = "dedup"
    /\ app' = [app EXCEPT !.inflight[app.req[q].fp] = q,
                          !.req[q].pc = "acquire"]
    /\ appFrame

\* 4.F step 4: under the map's lock, the request registers its fingerprint, or
\* finds it registered and suspends on that pending result
res_dedup(q) ==
    /\ app.req[q].pc = "dedup"
    /\ app' = IF app.inflight[app.req[q].fp] = 0
              THEN [app EXCEPT !.inflight[app.req[q].fp] = q,
                               !.req[q].pc = "acquire"]
              ELSE [app EXCEPT !.req[q].pc = "wait",
                               !.req[q].on = app.inflight[app.req[q].fp]]
    /\ appFrame

\* Mutant: the gate hands out a slot whatever the number of slots taken.
res_acquire_unbounded(q) ==
    /\ app.req[q].pc = "acquire"
    /\ IF app.processConcurrency = -1
       THEN app' = [app EXCEPT !.req[q].pc = "load"]
       ELSE app' = [app EXCEPT !.sema = @ + 1, !.req[q].slot = TRUE,
                               !.req[q].pc = "load"]
    /\ appFrame

\* 4.F step 5: one slot of the semaphore, whose size is process-concurrency;
\* -1 disables the gate
res_acquire(q) ==
    /\ app.req[q].pc = "acquire"
    /\ IF app.processConcurrency = -1
       THEN app' = [app EXCEPT !.req[q].pc = "load"]
       ELSE /\ app.sema < app.processConcurrency
            /\ app' = [app EXCEPT !.sema = @ + 1, !.req[q].slot = TRUE,
                                  !.req[q].pc = "load"]
    /\ appFrame

\* The request the leader q completes with: its slot is released, its
\* registration removed, its pending result set.
completed(q, res) ==
    [app EXCEPT !.sema = IF app.req[q].slot THEN @ - 1 ELSE @,
                !.req[q].slot = FALSE,
                !.inflight[app.req[q].fp] = 0,
                !.pending[q] = res,
                !.req[q].result = res,
                !.req[q].pc = "done"]

\* 4.F step 5: the request deadline passes while the request waits for a slot
res_acquire_timeout(q) ==
    /\ app.req[q].pc = "acquire"
    /\ app.processConcurrency # -1
    /\ app' = completed(q, <<"timeout", q>>)
    /\ appFrame

\* 4.F step 6: the loader chain is run; it gives the source Blob, or not-found
res_load(q, outcome) ==
    /\ app.req[q].pc = "load"
    /\ app' = IF outcome = "ok"
              THEN [app EXCEPT !.req[q].loads = @ + 1, !.req[q].pc = "process"]
              ELSE [completed(q, <<outcome, q>>) EXCEPT !.req[q].loads = @ + 1]
    /\ appFrame

\* 4.F step 8: the processor is invoked
res_process_begin(q) ==
    /\ app.req[q].pc = "process"
    /\ app' = [app EXCEPT !.req[q].processes = @ + 1, !.req[q].pc = "processing"]
    /\ appFrame

\* 4.F steps 8 to 10: the processor returns the output Blob, which is
\* persisted when a result store is configured and returned; or it fails or
\* the process timeout passes
res_process_end(q, outcome) ==
    /\ app.req[q].pc = "processing"
    /\ app' = IF outcome = "ok"
              THEN [completed(q, <<"ok", q>>) EXCEPT
                      !.stored[app.req[q].fp] =
                          IF app.resultStore THEN <<"ok", q>> ELSE @]
              ELSE completed(q, <<outcome, q>>)
    /\ appFrame

\* 4.F step 4 and section 9: a suspended request reads the pending result once
\* it is set, and returns a copy
res_wait(q) ==
    /\ app.req[q].pc = "wait"
    /\ app.pending[app.req[q].on][1] # "none"
    /\ app' = [app EXCEPT !.req[q].pc = "done",
                          !.req[q].result = app.pending[app.req[q].on]]
    /\ appFrame

NextResultPath ==
    \/ \E q \in Arrivals, x \in Fingerprints : res_lookup(q, x)
    \/ \E q \in Arrivals : res_dedup(q)
    \/ \E q \in Arrivals : res_acquire(q)
    \/ \E q \in Arrivals : res_acquire_timeout(q)
    \/ \E q \in Arrivals, o \in {"ok", "not-found", "timeout"} : res_load(q, o)
    \/ \E q \in Arrivals : res_process_begin(q)
    \/ \E q \in Arrivals, o \in {"ok", "timeout", "internal"} : res_process_end(q, o)
    \/ \E q \in Arrivals : res_wait(q)

SpecResultPath == InitResultPath /\ [][NextResultPath]_vars

(***************************************************************************)
(* SpecLoaderChain models the loader chain of spec 4.E over the helpers    *)
(* isBlobEmpty and checkBlob of src/blob.go.  The loop over the loaders is *)
(* in the orchestrator, which is not among the sources, and follows the    *)
(* spec.  A loader is opaque: it is given by what it returns, a Blob       *)
(* (whether IsEmpty() holds of it, and its Err()) or nil, and an error.    *)
(***************************************************************************)

\* ---------------------------------------------------------------- bounds
MaxLoaders == 3        \* loaders in the chain

\* The errors a loader returns or a Blob has latched: none, not-found, another
Errors == {"nil", "ErrNotFound", "ErrOther"}

NilBlob == [nil |-> TRUE, empty |-> TRUE, err |-> "nil"]

\* What Blob.IsEmpty() and Blob.Err() give for the Blobs a loader may return
LoadedBlobs ==
    {NilBlob} \cup {[nil |-> FALSE, empty |-> e, err |-> x] : e \in BOOLEAN, x \in Errors}

\* What a loader returns: (blob, err)
Outcomes == {[blob |-> b, err |-> x] : b \in LoadedBlobs, x \in Errors}

RECURSIVE Chains(_)
Chains(n) ==
    IF n = 0 THEN {<<>>}
    ELSE Chains(n - 1) \cup
         {Append(c, o) : c \in {d \in Chains(n - 1) : Len(d) = n - 1}, o \in Outcomes}

InitLoaderChain ==
    /\ \E c \in Chains(MaxLoaders) :
         app = [built |-> "chain", loaders |-> c, i |-> 1, pc |-> "run",
                blob |-> NilBlob, err |-> "nil"]
    /\ ctx = NoCtx
    /\ blob = NoBlob
    /\ source = <<>>
    /\ declared = 0
    /\ srcPos = 0
    /\ srcClosed = 0
    /\ f = New(0)
    /\ prod = IdleProd
    /\ r = [c \in Consumers |-> NoReader]
    /\ call = [c \in Consumers |-> IdleCall]
    /\ out = [c \in Consumers |-> <<>>]
    /\ ret = [c \in Consumers |-> NoRet]
    /\ closer = [c \in Consumers |-> [called |-> FALSE, mid |-> 0, returned |-> FALSE]]
    /\ panic = "none"
    /\ starts = 0
    /\ readCalled = FALSE

\* src/blob.go lines 342-344
isBlobEmpty(b) == b.nil \/ b.empty

\* Mutant: the Blob's own error is not looked at.
checkBlob_loaderErrorOnly(b, err) == [blob |-> b, err |-> err]

\* src/blob.go lines 346-351
checkBlob(b, err) ==
    [blob |-> b, err |-> IF ~b.nil /\ err = "nil" THEN b.err ELSE err]

\* Spec 4.E: the next loader of the chain is asked.  A Blob that is non-nil,
\* non-empty and without error is returned; not-found, and an empty result
\* without error, pass on to the next loader; any other error is returned and
\* the chain stops.
chain_loader ==
    /\ app.built = "chain"
    /\ app.pc = "run"
    /\ app.i <= Len(app.loaders)
    /\ LET got == checkBlob(app.loaders[app.i].blob, app.loaders[app.i].err) IN
       app' = IF ~isBlobEmpty(got.blob) /\ got.err = "nil"
              THEN [app EXCEPT !.pc = "done", !.blob = got.blob, !.err = "nil"]
              ELSE IF got.err \in {"nil", "ErrNotFound"}
              THEN [app EXCEPT !.i = @ + 1]
              ELSE [app EXCEPT !.pc = "done", !.err = got.err]
    /\ appFrame

\* Spec 4.E: no loader is left; the result is not-found
chain_end ==
    /\ app.built = "chain"
    /\ app.pc = "run"
    /\ app.i > Len(app.loaders)
    /\ app' = [app EXCEPT !.pc = "done", !.err = "ErrNotFound"]
    /\ appFrame

NextLoaderChain ==
    \/ chain_loader
    \/ chain_end

SpecLoaderChain == InitLoaderChain /\ [][NextLoaderChain]_vars

\* ================================================================ claims
\* The bytes the source stream holds, truncated to the declared size.
Expected == Take(source, declared)

\* Bytes delivered to consumer c that Read has not returned yet: the rest of
\* the replay, the rest of the chunk in hand, the chunks queued in the channel.
Pending(c) ==
    (IF r[c].bufReader.live THEN Drop(r[c].bufReader.s, r[c].bufReader.i) ELSE <<>>)
        \o r[c].buf \o Flatten(r[c].channel)

Got(c) == out[c] \o Pending(c)

\* Consumer c is still to be served in the broadcast in progress.
Behind(c) ==
    /\ prod.pc \in {"rlock", "send"}
    /\ \E j \in DOMAIN prod.readersCopy :
          prod.readersCopy[j] = c /\ (prod.pc = "rlock" \/ j >= prod.i)

\* How many bytes of the stream consumer c must have been given so far.
Published(c) == IF Behind(c) THEN f.current - prod.n ELSE f.current

\* Neither Close nor the error path of Read has closed consumer c.
NotClosed(c) == r[c].made /\ ~closer[c].called /\ ~r[c].readerClosed

\* C1 -- Fan-out equality: whenever it is created, a consumer that is not
\* closed has been given exactly the bytes published so far, in order, none
\* missing and none twice (returned bytes followed by the bytes still queued
\* for it), and once its Read reports EOF it has returned exactly the source
\* stream truncated to the declared size.
C1_FanoutEquality ==
    \A c \in Consumers :
        NotClosed(c) =>
            /\ Got(c) = Take(source, Published(c))
            /\ (ret[c].e = "EOF" => out[c] = Expected)

\* C1 witness: consumer 2 registered after the producer's last exclusive
\* section (it is not in the last registry copy), consumer 1 before the
\* producer started; both read a two-byte stream to EOF.
C1_Witness ==
    /\ prod.pc = "done"
    /\ prod.readersCopy = <<1>>
    /\ NotClosed(1) /\ NotClosed(2)
    /\ ret[1].e = "EOF" /\ ret[2].e = "EOF"
    /\ out[1] = <<1, 2>> /\ out[2] = <<1, 2>>

\* C2 -- Single producer: readAll has been launched exactly once as soon as
\* any Read was called, and not at all before that (NewReader never launches it).
C2_SingleProducer == starts = (IF readCalled THEN 1 ELSE 0)

\* C2 witness: Read calls in progress on two consumers at once, one launch.
C2_Witness ==
    /\ call[1].pc = "sample" /\ call[2].pc = "sample"
    /\ starts = 1

\* C3 -- A consumer that is not closed by Close observes the latched error
\* only after it has returned every byte delivered to it before.
C3_ErrorAfterDrain ==
    \A c \in Consumers :
        (r[c].made /\ ~closer[c].called /\ ret[c].e = "ERR") => Pending(c) = <<>>

\* C4 -- A Read that starts after a Close call on the consumer has returned
\* gives 0 bytes and the closed-pipe error.
C4_ReadAfterClose ==
    \A c \in Consumers :
        (ret[c].op = "Read" /\ ret[c].after) =>
            (ret[c].n = 0 /\ ret[c].e = "ErrClosedPipe")

C6_NoChannelPanic ==
    /\ panic = "none"
    /\ \A c \in Consumers : r[c].chClosed <= 1

\* C6 witness: two Close calls on one consumer overlap (one has returned, the
\* other has set the flag and not closed the channel yet) while the producer
\* is broadcasting, and on the other consumer a Close call and the implicit
\* close at EOF both ran and its channel was closed once.
C6_Witness ==
    \E c, d \in Consumers :
        /\ c # d
        /\ closer[c].mid = 1 /\ closer[c].returned /\ r[c].chClosed = 0
        /\ prod.pc = "send"
        /\ closer[d].returned /\ r[d].chClosed = 1

\* A chunk was sent on some consumer's channel in this step.
ChunkSent == \E c \in Consumers : Len(r'[c].channel) > Len(r[c].channel)

SeekDone(c) ==
    /\ r[c].fullBufReader.live
    /\ call[c].pc \notin {"seekCloseLock", "seekCloseChan"}

\* C8 -- Seek ordering: a Seek call on a consumer has returned from its
\* waiting branch only if the producer has signalled completion and ended,
\* with the buffer (and the consumer's view of it) holding the whole stream
\* truncated to the declared size; from then on the consumer's closed-flag is
\* set, its channel is closed (by this call or by the Read that ended the
\* stream, when no Close call is involved) and no chunk is sent on it.
C8_SeekOrdering ==
    /\ [](\A c \in Consumers :
            SeekDone(c) =>
                /\ f.done > 0
                /\ prod.pc = "done"
                /\ f.current >= f.size
                /\ f.buf = Expected
                /\ r[c].fullBufReader.s = Expected
                /\ r[c].channelClosed
                /\ (~closer[c].called => r[c].chClosed = 1))
    /\ [][\A c \in Consumers :
            SeekDone(c) => Len(r'[c].channel) <= Len(r[c].channel)]_vars

\* C8 witness: the consumer read one byte of a longer stream through its
\* channel, then Seek waited for the producer, closed the channel and
\* returned.
C8_Witness ==
    /\ SeekDone(1)
    /\ ret[1].op = "Seek" /\ ret[1].e = "nil"
    /\ r[1].current = 1 /\ Len(Expected) >= 2
    /\ ~closer[1].called /\ r[1].chClosed = 1

\* C9 -- Once the producer has terminated (end of stream, declared size
\* reached, or a source read error), a Seek call waiting on a consumer that
\* is not closed can go on: the completion signal it waits for has been
\* given.  Nothing gives the signal after the producer has ended, so a call
\* that finds it missing then is blocked forever.
C9_SeekReturnsAfterTermination ==
    \A c \in Consumers :
        (prod.pc = "done" /\ call[c].pc = "seekWait" /\ ~closer[c].called)
            => f.done > 0

\* Consumer c reads through the view that its last successful Seek positioned,
\* and no Close call is involved.
SoughtView(c) ==
    /\ r[c].fullBufReader.live
    /\ r[c].seekAt >= 0
    /\ call[c].pc = "idle"
    /\ ~closer[c].called

\* C10 -- After a successful Seek the Reads that follow return the bytes of
\* the completed buffer from the sought position on: what they have returned
\* so far is a prefix of the buffer from that position, every such Read of a
\* non-empty p returns at least one byte until the end is reached, and the
\* Read that reports EOF comes when exactly the rest of the buffer has been
\* returned.
C10_ReadsFollowSeek ==
    \A c \in Consumers :
        SoughtView(c) =>
            /\ IsPrefix(out[c], Drop(f.buf, r[c].seekAt))
            /\ (ret[c].op = "Read" =>
                  IF ret[c].e = "EOF"
                  THEN ret[c].n = 0 /\ out[c] = Drop(f.buf, r[c].seekAt)
                  ELSE ret[c].e = "nil" /\ ret[c].n > 0)

\* C11 -- A Seek call that starts after a Close call on the consumer has
\* returned gives position 0 and the closed-pipe error, whether the producer
\* has ended or not and whether the consumer reads from the full buffer or not.
C11_SeekAfterClose ==
    \A c \in Consumers :
        (ret[c].op = "Seek" /\ ret[c].after) =>
            (ret[c].n = 0 /\ ret[c].e = "ErrClosedPipe")

\* ------------------------------------------------------------- Blob claims
\* The readers handed out that were read to the end.
ReadToEnd(i) == blob.h[i].pc = "done" /\ blob.h[i].via # "nil"

\* What the queries BlobType, ContentType, Size and Sniff return.
Queries(b) == <<BlobType(b), ContentType(b), Size(b), Sniff(b)>>

\* C12: the sniffing step Blob.init runs at most once on a Blob; once it is
\* over BlobType, ContentType, Size and Sniff return the same values whenever
\* they are called; and the reader the first NewReader takes over from the
\* sniff, read to the end, delivers the whole content from byte 0.
C12_SniffIdempotence ==
    /\ [](blob.inits <= 1)
    /\ [][blob.once = "done" => Queries(blob') = Queries(blob)]_vars
    /\ [](\A i \in Handles :
            (ReadToEnd(i) /\ blob.h[i].via \in {"peek-native", "peek-fanout"}) =>
                blob.h[i].got = source)

\* A Blob over a 25-byte JPEG streamed by an opener was sniffed through the
\* fan-out, further requests followed, and the reader of the first NewReader
\* was read to the end.
C12_Witness ==
    /\ blob.ctor = "NewBlob"
    /\ blob.inits = 1
    /\ blob.blobType = "JPEG"
    /\ blob.calls = MaxHandles
    /\ \E i \in Handles :
         /\ blob.h[i].kind = "NewReader"
         /\ blob.h[i].via = "peek-fanout"
         /\ ReadToEnd(i)
         /\ Len(blob.h[i].got) = SniffMin + 1

\* A Blob with content and without error.
NonEmptyErrorFree == Len(source) > 0 /\ blob.err = "nil" /\ blob.openErr = "nil"

\* C13: on a non-empty, error-free Blob every ReadAll that has returned, every
\* reader of NewReader read to the end and every read-seeker of NewReadSeeker
\* read to the end has given the same bytes, the content, and ended without
\* error, in whatever order and number the requests were made.
C13_ReadEquivalence ==
    NonEmptyErrorFree =>
        \A i \in Handles :
            ReadToEnd(i) =>
                /\ blob.h[i].got = source
                /\ blob.h[i].readErr = "EOF"
                /\ blob.h[i].err = "nil"

\* A file Blob of 25 bytes was read by ReadAll, by a reader of NewReader and by
\* a read-seeker of NewReadSeeker: one through the sniff's reader, one through
\* the fan-out, one through the file itself.
C13_Witness ==
    /\ NonEmptyErrorFree
    /\ Len(source) = SniffMin + 1
    /\ \A k \in {"ReadAll", "NewReader", "NewReadSeeker"} :
         \E i \in Handles : blob.h[i].kind = k /\ ReadToEnd(i)
    /\ \E i \in Handles : blob.h[i].via = "peek-fanout"
    /\ \E i \in Handles : blob.h[i].via = "fanout"
    /\ \E i \in Handles : blob.h[i].via = "native"

\* What a Blob reports about its type.
TypeReport(b) ==
    <<BlobType(b), ContentType(b), SupportsAnimation(b), IsEmpty(b)>>

\* The three variants of the claim: a file, a byte slice, an opener that is not
\* seekable and reports the exact size.
Variant ==
    \/ blob.ctor = "NewBlobFromFile" /\ blob.err = "nil"
    \/ blob.ctor = "NewBlobFromBytes"
    \/ /\ blob.ctor = "NewBlob" /\ ~blob.seekable
       /\ blob.openErr = "nil" /\ blob.openSize = Len(source)

\* What every variant reports for a content c: the type and the content type
\* that the sniffing table and the MIME detector give for c itself.
Reported(c) ==
    LET bt == sniffBlobType(IF Len(c) = 0 THEN "Empty" ELSE "Unknown", Take(c, PeekLen))
    IN <<bt, sniffContentType("", bt, Take(c, PeekLen)), bt \in {"GIF", "WEBP"}, bt = "Empty">>

C15_EmptyEquivalence ==
    blob.once = "done" =>
        /\ IsEmpty(blob) <=> BlobType(blob) = "Empty"
        /\ BlobType(blob) = "Empty" <=> Len(Sniff(blob)) = 0

\* C15 amended: on every sniffed Blob IsEmpty() holds exactly when BlobType()
\* is Empty, and an Empty Blob has a zero-length Sniff(); a zero-length Sniff()
\* means Empty on the Blobs without error.
C15_EmptyEquivalenceWithoutError ==
    blob.once = "done" =>
        /\ IsEmpty(blob) <=> BlobType(blob) = "Empty"
        /\ BlobType(blob) = "Empty" => Len(Sniff(blob)) = 0
        /\ (Err(blob) = "nil" /\ Len(Sniff(blob)) = 0) => BlobType(blob) = "Empty"

\* A zero-length file was sniffed: it is Empty with a zero-length Sniff().
C15_Witness ==
    /\ blob.ctor = "NewBlobFromFile"
    /\ blob.once = "done"
    /\ blob.opens = 1
    /\ Err(blob) = "nil"
    /\ IsEmpty(blob) /\ Len(Sniff(blob)) = 0

\* C16: a sniffed Blob whose content starts with FF D8 FF is JPEG with content
\* type image/jpeg and no animation, and one whose bytes [4..8) are ftyp and
\* [8..12) are avif is AVIF, whenever the content is long enough to hold the
\* pattern: the 12-byte JPEG and the 24-byte AVIF of the spec's examples
\* included.
C16_MagicNumbers ==
    (blob.once = "done" /\ Err(blob) = "nil") =>
        /\ (Len(source) >= 3 /\ Slice(source, 0, 3) = jpegHeader) =>
              /\ BlobType(blob) = "JPEG"
              /\ ContentType(blob) = "image/jpeg"
              /\ ~SupportsAnimation(blob)
        /\ (Len(source) >= 12 /\ Slice(source, 4, 8) = ftyp
                              /\ Slice(source, 8, 12) = avif) =>
              BlobType(blob) = "AVIF"

\* A Blob built by NewBlob from an opener that reports a size in (0, 100 MiB)
\* and no error.
SizedOpener ==
    /\ blob.ctor = "NewBlob"
    /\ blob.openErr = "nil"
    /\ blob.openSize > 0 /\ blob.openSize < maxMemorySize

\* How many of the requests so far were of the given kind.
Requests(kind) == Cardinality({i \in Handles : blob.h[i].kind = kind})

\* C17 as stated: the opener of such a Blob is invoked once, by the sniff,
\* and never again, whatever requests follow.
C17_OpenerOnce ==
    SizedOpener => blob.opens = IF blob.once = "new" THEN 0 ELSE 1

\* C17 amended: the opener of such a Blob is invoked once by the sniff; after
\* that NewReader and ReadAll never invoke it; NewReadSeeker never invokes it
\* when its reader is not seekable, and invokes it once per call when it is.
C17_OpenerOnceUnlessSeekable ==
    SizedOpener =>
        blob.opens = IF blob.once = "new" THEN 0
                     ELSE IF blob.seekable THEN 1 + Requests("NewReadSeeker")
                     ELSE 1

\* A non-seekable opener with a size in range served a ReadAll and a
\* NewReadSeeker, both read to the end, from the one stream it opened.
C17_Witness ==
    /\ SizedOpener
    /\ ~blob.seekable
    /\ blob.opens = 1
    /\ \A k \in {"ReadAll", "NewReadSeeker"} :
         \E i \in Handles : blob.h[i].kind = k /\ ReadToEnd(i)

\* A Blob whose constructor latched an error: os.Stat's or a check's for a
\* file, json.Marshal's for a JSON Blob.
LatchedAtConstruction ==
    /\ blob.ctor \in {"NewBlobFromFile", "NewBlobFromJsonMarshal"}
    /\ blob.openErr # "nil"

\* C18: on a Blob whose constructor latched an error, Err() returns that
\* error, and so does every NewReader, every NewReadSeeker and every ReadAll
\* call, the first and the later ones.
C18_LatchedErrorReturned ==
    LatchedAtConstruction =>
        /\ Err(blob) = blob.openErr
        /\ \A i \in Handles :
             blob.h[i].kind # "none" => blob.h[i].err = blob.openErr

EmptyBlob ==
    /\ Len(source) = 0
    /\ blob.err = "nil"
    /\ blob.ctor \in {"NewEmptyBlob", "NewBlobFromBytes", "NewBlobFromFile"}

\* C20: a sniffed empty Blob has BlobType Empty, IsEmpty true, a zero-length
\* Sniff and Size 0; its ReadAll returns no bytes and no error; its NewReader
\* returns a reader, size 0 and no error, and that reader read to the end has
\* given no byte and EOF; and the Blob of NewEmptyBlob never invokes an opener.
C20_EmptyBlobs ==
    EmptyBlob =>
        /\ blob.once = "done" =>
             /\ BlobType(blob) = "Empty" /\ IsEmpty(blob)
             /\ Len(Sniff(blob)) = 0 /\ Size(blob) = 0
        /\ \A i \in Handles :
             /\ blob.h[i].kind = "ReadAll" =>
                  /\ blob.h[i].pc = "done"
                  /\ blob.h[i].got = <<>>
                  /\ blob.h[i].err = "nil"
             /\ blob.h[i].kind = "NewReader" =>
                  /\ blob.h[i].via # "nil"
                  /\ blob.h[i].size = 0
                  /\ blob.h[i].err = "nil"
                  /\ ReadToEnd(i) => (blob.h[i].got = <<>> /\ blob.h[i].readErr = "EOF")
        /\ blob.ctor = "NewEmptyBlob" => blob.opens = 0

\* The Blob of NewEmptyBlob was sniffed, ReadAll was called on it, and a
\* reader of NewReader was read to the end.
C20_Witness ==
    /\ blob.ctor = "NewEmptyBlob"
    /\ blob.once = "done"
    /\ \E i \in Handles : blob.h[i].kind = "ReadAll" /\ blob.h[i].pc = "done"
    /\ \E i \in Handles : blob.h[i].kind = "NewReader" /\ ReadToEnd(i)

\* Whether init went through the sniff to its end: the Blob has an opener and
\* no error was latched, at construction, by the opener or by the Peek.
SniffRan == blob.ctor # "NewEmptyBlob" /\ Err(blob) = "nil"

\* The type the constructor gave the Blob.
CtorType == IF blob.ctor = "NewBlobFromJsonMarshal" THEN "JSON" ELSE "Unknown"

\* What the override must leave alone: the sniffed prefix, the size and the
\* type are those of the content, and every reader read to the end of a
\* non-empty error-free Blob has given the content.
OverrideFrame ==
    /\ SniffRan =>
         /\ Sniff(blob) = Take(source, PeekLen)
         /\ Size(blob) = blob.openSize
         /\ BlobType(blob) = sniffBlobType(IF Len(source) = 0 THEN "Empty" ELSE CtorType,
                                           Take(source, PeekLen))
    /\ NonEmptyErrorFree =>
         \A i \in Handles : ReadToEnd(i) => blob.h[i].got = source

\* C21 as stated: on a sniffed Blob, ContentType() is the non-empty x of the
\* last SetContentType(x), set before the sniff or after it; the override
\* leaves BlobType, Sniff, Size and the readable bytes as the content
\* determines them; and without any SetContentType, ContentType() is the
\* default for the detected BlobType (the MIME detector's answer for the
\* sniffed prefix when the type has no content type of its own).
C21_ContentTypeOverride ==
    blob.once = "done" =>
        /\ blob.override \notin {"none", ""} => ContentType(blob) = blob.override
        /\ OverrideFrame
        /\ blob.override = "none" =>
             ContentType(blob) = sniffContentType("", BlobType(blob), Sniff(blob))

\* C21 amended: the same, but without an override ContentType() is the default
\* for the detected BlobType only when the sniff ran to its end; a Blob
\* without opener or with a latched error reports the empty content type.
C21_OverrideRetained ==
    blob.once = "done" =>
        /\ blob.override \notin {"none", ""} => ContentType(blob) = blob.override
        /\ OverrideFrame
        /\ blob.override = "none" =>
             ContentType(blob) = IF SniffRan
                                 THEN sniffContentType("", BlobType(blob), Sniff(blob))
                                 ELSE ""

\* A 25-byte JPEG Blob was given the content type foo/bar, was sniffed as JPEG
\* and reports foo/bar, and a reader of it was read to the end.
C21_Witness ==
    /\ blob.once = "done"
    /\ blob.override = "foo/bar"
    /\ BlobType(blob) = "JPEG"
    /\ ContentType(blob) = "foo/bar"
    /\ \E i \in Handles : ReadToEnd(i) /\ Len(blob.h[i].got) = SniffMin + 1

C23_JsonMarshalBlob ==
    (blob.ctor = "NewBlobFromJsonMarshal" /\ blob.openErr = "nil"
                                          /\ blob.once = "done") =>
        /\ BlobType(blob) = "JSON"
        /\ ContentType(blob) = "application/json"
        /\ Sniff(blob) = Take(source, PeekLen)
        /\ Size(blob) = Len(source)
        /\ \A i \in Handles :
             (blob.h[i].kind = "ReadAll" /\ blob.h[i].pc = "done") =>
                 /\ blob.h[i].got = source
                 /\ blob.h[i].err = "nil"

\* The Blob of a marshalled 26-byte string that carries the WebP magic number
\* at bytes 8 to 11 was sniffed, and ReadAll returned on it twice.
C23_Witness ==
    /\ blob.ctor = "NewBlobFromJsonMarshal"
    /\ blob.once = "done"
    /\ Len(source) > SniffMin
    /\ Slice(Sniff(blob), 8, 12) = webpHeader
    /\ BlobType(blob) = "JSON"
    /\ \E i, j \in Handles :
         /\ i # j
         /\ blob.h[i].kind = "ReadAll" /\ blob.h[i].pc = "done"
         /\ blob.h[j].kind = "ReadAll" /\ blob.h[j].pc = "done"

\* ---------------------------------------------------------- context claims
\* No Call is running on the ref of scope s, and its watcher has returned.
Finalized(s) ==
    /\ ctx.caller[s]["watcher"].pc = "done"
    /\ ctx.caller[s]["again"].pc = "idle"

\* C24: on every scope no deferred function is invoked before the context is
\* done; the invocations follow the order of registration and invoke no
\* function twice, however often Call runs; and once the watcher has returned
\* every function registered before the context was done has been invoked.
C24_DeferredOrder ==
    \A s \in Scopes :
        /\ ctx.invoked[s] # <<>> => ctx.done[s]
        /\ IsPrefix(ctx.invoked[s], ctx.registered[s])
        /\ ctx.caller[s]["watcher"].pc = "done" =>
               IsPrefix(ctx.early[s], ctx.invoked[s])

\* Three functions were deferred on a scope before its context was done; the
\* watcher has invoked them in order and Call has run once more after it.
C24_Witness ==
    \E s \in Scopes :
        /\ Len(ctx.early[s]) = MaxDefers
        /\ ctx.invoked[s] = ctx.early[s]
        /\ Finalized(s)
        /\ ctx.calls[s] = MaxCalls

\* C25: once the context of a scope is done and no Call is running any more,
\* every function that was passed to Defer on it has been invoked exactly
\* once, whenever Defer was called.
C25_EveryDeferInvoked ==
    \A s \in Scopes :
        (ctx.done[s] /\ Finalized(s)) => ctx.invoked[s] = ctx.registered[s]

\* The value of the latest of the first n puts on context c for the key, and
\* whether there is one.
LatestPut(c, key, n) ==
    LET at == {i \in 1..n : ctx.puts[i][1] = c /\ ctx.puts[i][2] = key}
        last == CHOOSE i \in at : \A j \in at : j <= i
    IN IF at = {} THEN [val |-> "nil", ok |-> FALSE]
       ELSE [val |-> ctx.puts[last][3], ok |-> TRUE]

\* C26: ContextCacheGet on a scope has returned the value of the latest
\* ContextCachePut made before it on that scope for that key, and (nil, false)
\* when there was none, whatever was put on other scopes; on a context without
\* scope it has returned (nil, false) and ContextCachePut has changed no
\* scope's cache; and Defer on a context without scope has panicked, and only
\* that panics.
C26_ScratchCache ==
    /\ ctx.got.c \in Scopes =>
           [val |-> ctx.got.val, ok |-> ctx.got.ok]
               = LatestPut(ctx.got.c, ctx.got.key, ctx.got.at)
    /\ ctx.got.c = Plain => (ctx.got.val = "nil" /\ ~ctx.got.ok)
    /\ \A s \in Scopes, key \in Keys :
           cacheLoad(ctx.ref, s, key) = LatestPut(s, key, Len(ctx.puts))
    /\ \A key \in Keys : ~cacheLoad(ctx.ref, Plain, key).ok
    /\ ctx.panic # "none" <=> ctx.deferOn = Plain

\* v1 then v2 were put for one key on one scope, and a get on that scope
\* returned v2.
C26_Witness ==
    /\ Len(ctx.puts) = 2
    /\ ctx.puts[1][1] \in Scopes
    /\ ctx.puts[2][1] = ctx.puts[1][1]
    /\ ctx.puts[2][2] = ctx.puts[1][2]
    /\ ctx.puts[1][3] = "v1" /\ ctx.puts[2][3] = "v2"
    /\ ctx.got.c = ctx.puts[1][1] /\ ctx.got.key = ctx.puts[1][2]
    /\ ctx.got.at = 2 /\ ctx.got.val = "v2" /\ ctx.got.ok

\* ----------------------------------------------------------- config claims
\* C27: once Do has run with a signer type that names no supported hash
\* algorithm, startup has failed: no server is built, so no request is ever
\* verified under that configuration; and a server that is built signs with
\* the algorithm the signer type names, never with another one.
C27_UnknownAlgorithmFatal ==
    app.built # "new" =>
        IF ToLower(app.signerType) \in Supported
        THEN app.built = "ok" /\ app.alg = ToLower(app.signerType)
        ELSE /\ app.built = "fatal"
             /\ \A q \in Signed : app.result[q] = "none"

\* ------------------------------------------------------ result path claims
\* Request q has registered its fingerprint and has not completed yet.
Leading(q) == app.req[q].pc \in {"acquire", "load", "process", "processing"}

\* The requests that lead for fingerprint x.
LeadersOf(x) == {q \in Arrivals : app.req[q].fp = x /\ Leading(q)}

C29_ProcessGate ==
    app.processConcurrency > 0 =>
        /\ Cardinality({q \in Arrivals : app.req[q].pc = "processing"})
               <= app.processConcurrency
        /\ app.sema = Cardinality({q \in Arrivals : app.req[q].slot})
        /\ app.sema <= app.processConcurrency
        /\ \A q \in Arrivals :
             app.req[q].slot <=> app.req[q].pc \in {"load", "process", "processing"}

\* With two slots, one request has failed in the processor and released its
\* slot, two others are in the processor.
C29_Witness ==
    /\ app.processConcurrency = 2
    /\ Cardinality({q \in Arrivals : app.req[q].pc = "processing"}) = 2
    /\ \E q \in Arrivals :
         /\ app.req[q].pc = "done" /\ app.req[q].processes = 1
         /\ app.req[q].result[1] = "internal"

\* ----------------------------------------------------- loader chain claims
\* The error of a loader's result, the Blob's own latched error counting as
\* the loader's when the loader returned none.
ResultErr(o) == IF o.err # "nil" THEN o.err
                ELSE IF o.blob.nil THEN "nil" ELSE o.blob.err

\* A loader's result is a valid Blob: non-nil, non-empty, without error.
ValidBlob(o) == ~o.blob.nil /\ ~o.blob.empty /\ ResultErr(o) = "nil"

\* A loader's result stops the chain: an error other than not-found.
Stopping(o) == ResultErr(o) \notin {"nil", "ErrNotFound"}

\* The loaders of the chain that decide it, in list order.
Deciding == {i \in DOMAIN app.loaders :
                ValidBlob(app.loaders[i]) \/ Stopping(app.loaders[i])}

\* C30: when the chain has returned, its result is the Blob of the first
\* loader in list order whose result is a valid Blob, provided no loader before
\* it answered with an error other than not-found; the error of the first
\* loader that answered with such an error, provided no loader before it gave
\* a valid Blob; and not-found when no loader gave a valid Blob or such an
\* error.  Loaders answering not-found, or nothing, or an empty Blob, are
\* passed over.
C30_LoaderChain ==
    (app.built = "chain" /\ app.pc = "done") =>
        IF Deciding = {}
        THEN app.err = "ErrNotFound" /\ app.blob = NilBlob
        ELSE LET d == CHOOSE i \in Deciding : \A j \in Deciding : i <= j IN
             IF ValidBlob(app.loaders[d])
             THEN app.err = "nil" /\ app.blob = app.loaders[d].blob
             ELSE app.err = ResultErr(app.loaders[d]) /\ app.blob = NilBlob

\* A chain of three loaders returned the Blob of the third: the first
\* answered not-found through the error a Blob had latched, the second gave
\* an empty Blob.
C30_Witness ==
    /\ app.built = "chain" /\ app.pc = "done"
    /\ Len(app.loaders) = MaxLoaders
    /\ ~app.loaders[1].blob.nil /\ app.loaders[1].err = "nil"
    /\ app.loaders[1].blob.err = "ErrNotFound" /\ ~app.loaders[1].blob.empty
    /\ app.loaders[2].blob.empty /\ ~app.loaders[2].blob.nil
    /\ ResultErr(app.loaders[2]) = "nil"
    /\ ValidBlob(app.loaders[3])
    /\ app.blob = app.loaders[3].blob /\ app.err = "nil"

\* ------------------------------------------------------- late join claims
\* C31 -- Late join delivers each byte exactly once: whatever the point of
\* the producer loop at which a consumer is minted, the bytes it has been
\* given (returned, left in its replay, in hand, queued in its channel) are a
\* prefix of the stream, so no chunk is skipped and none is given twice, and
\* once its Read reports EOF it has returned the stream truncated to the
\* declared size.
C31_LateJoinExactlyOnce ==
    \A c \in Consumers :
        (r[c].made /\ ~r[c].readerClosed) =>
            /\ IsPrefix(Got(c), Expected)
            /\ (ret[c].e = "EOF" => out[c] = Expected)

\* ---------------------------------------------------- short source claims
\* The source ends before the declared size.
Short == Len(source) < declared

\* The Read call in progress on consumer c waits for a chunk on its channel.
WaitsForChunk(c) ==
    /\ call[c].pc = "loop"
    /\ r[c].current < call[c].size /\ ~call[c].closed /\ call[c].e = "nil"
    /\ r[c].buf = <<>> /\ r[c].channel = <<>> /\ r[c].chClosed = 0

\* What holds in every state of a fan-out over a short source that does not
\* fail: once the producer has ended, size is the number of bytes the source
\* held and the buffer is cut to them, and no Read call waits for a chunk that
\* will not come; a consumer whose Read has reported EOF has returned exactly
\* the bytes of the source.
ShortSourceState ==
    (Short /\ f.err = "nil") =>
        /\ prod.pc = "done" => f.size = Len(source) /\ f.buf = source
        /\ \A c \in Consumers :
              r[c].made =>
                 /\ (prod.pc = "done" => ~WaitsForChunk(c))
                 /\ (ret[c].e = "EOF" => out[c] = source)

C33_ChunkIsWhatWasRead ==
    /\ panic # "slice bounds out of range"
    /\ prod.pc \in {"rlock", "send"} =>
          prod.bn = SubSeq(f.buf, f.current - prod.n + 1, f.current)

\* ------------------------------------------------------------ Close claims
\* C34 -- Close on a consumer always returns, also when the callers have
\* stopped reading (no Read call is in progress) and the producer is inside a
\* broadcast: a Close call on a consumer can take the lock at once, or the
\* goroutine that holds the lock, the producer, can go on by itself, so that
\* the call waits neither for a channel to be drained nor for another consumer.
C34_CloseReturns ==
    \A c \in Consumers :
        (r[c].made /\ panic = "none" /\ \A d \in Consumers : call[d].pc = "idle") =>
            \/ ENABLED Close_lock(c)
            \/ ENABLED (readAll_send \/ readAll_runlock)

\* ---------------------------------------------------- sniff consumer claims
\* The producer cannot go on: it has ended, or it is parked in a send on the
\* full channel of a consumer.
ProducerParked ==
    \/ prod.pc = "done"
    \/ /\ prod.pc = "send" /\ prod.i <= Len(prod.readersCopy)
       /\ LET d == prod.readersCopy[prod.i] IN
            ~r[d].channelClosed /\ r[d].chClosed = 0 /\ Len(r[d].channel) >= r[d].cap

\* The reader behind handle i waits for a chunk that cannot come.
Starved(i) ==
    /\ blob.h[i].via = "fanout" /\ blob.h[i].pc = "open"
    /\ WaitsForChunk(blob.h[i].c)
    /\ ProducerParked

\* C35 -- For a fan-out memoized Blob whose sniff is over, while the
\* peekReader is neither read nor closed: the process has not crashed, and no
\* reader obtained from NewReadSeeker or from a later NewReader waits for a
\* chunk that cannot come any more, so each of them can be read to EOF.
C35_SniffNeverStarves ==
    (blob.once = "done" /\ blob.newReader = "fanout") =>
        /\ panic = "none"
        /\ \A i \in Handles : ~Starved(i)

\* ------------------------------------------------------ peekReader claims
\* Handle i is served by the peekReader.
ViaPeek(i) == blob.h[i].via \in {"peek-fanout", "peek-native"}

\* Handle i is served by a fan-out consumer, the sniff's or one of its own.
OnFanout(i) == blob.h[i].via \in {"peek-fanout", "fanout"}

\* Nothing was read yet from the fan-out consumer behind handle i.
Unread(i) ==
    /\ blob.h[i].via = "fanout" /\ blob.h[i].pc = "open" /\ blob.h[i].got = <<>>
    /\ out[blob.h[i].c] = <<>> /\ call[blob.h[i].c].pc = "idle"

\* C36 -- The peekReader is handed out to at most one request, the first
\* that reaches NewReader (ReadAll's call included, which an Empty Blob never
\* makes), after which the Blob holds it no more;
\* every other request gets a reader of its own: a fresh reader of the
\* opener, opened for that request, or a fan-out consumer no other handle
\* has, which starts at byte 0 by replaying the buffer below its cursor.
C36_PeekHandedOnce ==
    /\ \A i, j \in Handles : (ViaPeek(i) /\ ViaPeek(j)) => i = j
    /\ blob.onceReader => blob.peekReader = "nil"
    /\ \A i \in Handles : ViaPeek(i) =>
          /\ blob.h[i].kind \in {"NewReader", "ReadAll"}
          /\ \A j \in 1..(i - 1) :
                \/ blob.h[j].kind = "NewReadSeeker"
                \/ blob.h[j].kind = "ReadAll" /\ IsEmpty(blob)
    /\ \A i, j \in Handles :
          (OnFanout(i) /\ OnFanout(j) /\ blob.h[i].c = blob.h[j].c) => i = j
    /\ Cardinality({i \in Handles : blob.h[i].via = "native"})
          + Cardinality({i \in Handles : blob.h[i].via = "peek-native"})
          <= blob.opens
    /\ \A i \in Handles : Unread(i) =>
          /\ r[blob.h[i].c].bufReader.i = 0
          /\ r[blob.h[i].c].bufReader.s = Take(f.buf, r[blob.h[i].c].current)

\* C36 witness: three NewReader calls on a Blob over an opener; the first got
\* the peekReader, the two others a fresh reader each.
C36_Witness ==
    /\ \A i \in Handles : blob.h[i].kind = "NewReader"
    /\ ViaPeek(1) /\ blob.h[2].via = "native" /\ blob.h[3].via = "native"
    /\ blob.opens = 3

\* C36 witness on the fan-out: the first NewReader got the peekReader over
\* consumer 1, the second a consumer of its own.
C36_WitnessFanout ==
    /\ blob.h[1].kind = "NewReader" /\ blob.h[1].via = "peek-fanout"
    /\ blob.h[2].kind = "NewReader" /\ blob.h[2].via = "fanout"
    /\ blob.h[2].c = 2 /\ Unread(2) /\ f.current > 0

\* ------------------------------------------------------ finalization claims
\* C37 -- Once the context of a scope is done, the watcher's run of the
\* deferred list comes to its end, also when a deferred function calls Defer
\* on a scope while Call runs it.
C37_FinalizationTerminates ==
    \A s \in Scopes : ctx.done[s] ~> (ctx.caller[s]["watcher"].pc = "done")

\* ------------------------------------------------- producer end claims
\* The producer has read no byte beyond the declared size, and the source is
\* closed once when the producer has ended and not before.
ProducerEndState ==
    /\ srcPos <= declared
    /\ f.current <= declared
    /\ srcClosed <= 1
    /\ (srcClosed = 1) <=> (prod.pc = "done")

\* C38 -- With a source that ends, fails or delivers the declared number of
\* bytes, and consumers that keep reading and are not closed: the producer
\* loop, once started, ends; it reads no byte beyond the declared size; it
\* closes the source once, when it ends, and reads nothing from it afterwards.
C38_ProducerTerminates ==
    /\ []ProducerEndState
    /\ [][srcClosed = 1 => srcPos' = srcPos /\ srcClosed' = 1]_vars
    /\ (prod.pc # "idle") ~> (prod.pc = "done")

\* ------------------------------------------------------ write cursor claims
\* The write cursor is within the buffer, and no consumer has counted more
\* bytes than were written.
CursorState ==
    /\ 0 <= f.current /\ f.current <= f.size /\ f.current <= Len(f.buf)
    /\ \A c \in Consumers : r[c].made => r[c].current <= f.current

\* C39 -- In every reachable state of a Fanout 0 <= current <= size and every
\* consumer's count of consumed bytes is at most current; no step decreases
\* current, and no step changes a byte of the buffer below it.
C39_WriteCursor ==
    /\ []CursorState
    /\ [][/\ f'.current >= f.current
          /\ Take(f'.buf, f.current) = Take(f.buf, f.current)]_vars

\* C39 witness: the producer has written in two reads, the first one byte
\* long, and a consumer has counted all the bytes written.
C39_Witness ==
    /\ f.current > 1 /\ f.current = f.size /\ prod.n = f.current - 1
    /\ Take(f.buf, f.current) = Take(source, f.current)
    /\ \E c \in Consumers : r[c].made /\ r[c].current = f.current

====
